---------------------------- MODULE Spec2Model ----------------------------
(***************************************************************************)
(* Metadata store of the agent runtime (letta/metadata.py, with the legacy *)
(* memgpt/metadata.py): the tables of the store as sets of rows, and one   *)
(* action per MetadataStore method.  A table is a set of records; the      *)
(* engine enforces only the primary key (the id column), every other       *)
(* invariant is whatever the methods' own checks establish.                *)
(***************************************************************************)
EXTENDS Integers, FiniteSets, Sequences, TLC

VARIABLES users, agents, sources, blocks, tools, jobs, tokens, mappings, files, matched, last, calls, scan

vars == <<users, agents, sources, blocks, tools, jobs, tokens, mappings, files, matched, last, calls, scan>>

(***************************************************************************)
(* Bounds of the model.                                                    *)
(***************************************************************************)
NumIds == 2
NumNames == 2

\* Python's None where an id, a user id or a name is expected: a column left
\* empty, a parameter not given.  An Optional record is a set of at most one row:
\* {} is None.
None == 0

Ids == 1..NumIds
Names == 1..NumNames
UserIds == {1, 2}
BlockIds == {1, 2}
Labels == {"human", "persona"}
\* the tokens generate_api_key can draw
Keys == 1..NumIds
JobStatus == {"pending", "running", "completed", "failed"}
\* what a clock reads (func.now(), get_utc_time()): one time, as no method
\* compares two
Now == 1

(***************************************************************************)
(* Rows.  Of each table the columns the store's own logic reads are kept:  *)
(* the id, the owner and the name (and a block's label and template flag). *)
(***************************************************************************)
AgentState == [id : Ids, user_id : UserIds, name : Names]
Source == [id : Ids, user_id : UserIds, name : Names]
Tool == [id : Ids, user_id : {None} \cup UserIds, name : Names]
\* of a job also the completion time, None while it has none; the job
\* methods modelled read no user id, and the jobs are those of one user
Job == [id : Ids, user_id : {1}, status : JobStatus, completed_at : {None, Now}]
APIKey == [id : Ids, user_id : UserIds, key : Keys, name : Names]
Block == [id : BlockIds, user_id : UserIds, label : Labels, name : Names, template : BOOLEAN]

(***************************************************************************)
(* The engine: query(...).filter(...), session.add, query.update,          *)
(* query.delete.  session.add of a row whose id is already in the table    *)
(* violates the primary key and the commit raises IntegrityError.          *)
(***************************************************************************)
\* a table with no primary key
PrimaryKeyTaken_None(table, row) == FALSE

PrimaryKeyTaken(table, row) == \E r \in table : r.id = row.id

ById(table, id) == {r \in table : r.id = id}

ByNameAndUser(table, name, user_id) == {r \in table : r.name = name /\ r.user_id = user_id}

\* an update that adds the row when no row matches
UpdateRows_OrInsert(table, id, fields) ==
    IF \E r \in table : r.id = id
    THEN {IF r.id = id THEN fields ELSE r : r \in table}
    ELSE table \cup {fields}

\* query.filter(id == i).update(fields): every matching row becomes fields
UpdateRows(table, id, fields) == {IF r.id = id THEN fields ELSE r : r \in table}

DeleteRows(table, id) == {r \in table : r.id # id}

\* results[0] with the assert left out
ExactlyOneOrNone_NoAssert(results) ==
    IF Cardinality(results) = 0 THEN [res |-> "ok", ret |-> {}]
    ELSE [res |-> "ok", ret |-> {CHOOSE r \in results : TRUE}]

\* the tail of every unique-key get: None for no row, the record of the only
\* row, and the assert len(results) == 1 otherwise
ExactlyOneOrNone(results) ==
    IF Cardinality(results) = 0 THEN [res |-> "ok", ret |-> {}]
    ELSE IF Cardinality(results) = 1 THEN [res |-> "ok", ret |-> results]
    ELSE [res |-> "AssertionError", ret |-> {}]

\* what a call did: the method, its argument, how it ended (ok, or the
\* exception it raised), what it returned
Call(op, arg, res, ret) == [op |-> op, arg |-> arg, res |-> res, ret |-> ret]

\* the callers that hold a session of their own at the same time
Procs == {1, 2}

\* the rows of the mapping table a delete statement matches: what
\* query(AgentSourceMappingModel).filter(...).delete() counts
MappingsOfAgent(agent_id) == {m \in mappings : m.agent_id = agent_id}

MappingsOfSource(source_id) == {m \in mappings : m.source_id = source_id}

\* no listing under way
NoScan == [kind |-> "none"]

\* a caller that is in no call
NoCall == [pc |-> "idle", block |-> [id |-> None], existing |-> {}, res |-> "none"]

Init ==
    /\ users = {}
    /\ agents = {}
    /\ sources = {}
    /\ blocks = {}
    /\ tools = {}
    /\ jobs = {}
    /\ tokens = {}
    /\ mappings = {}
    /\ files = {}
    /\ matched = 0
    /\ last = Call("init", [id |-> None], "ok", {})
    /\ calls = [p \in Procs |-> NoCall]
    /\ scan = NoScan

(***************************************************************************)
(* Agents                                                                  *)
(***************************************************************************)
AgentNameTaken_AnyUser(agent) == \E r \in agents : r.name = agent.name

\* the read-before-write check of create_agent
AgentNameTaken(agent) == Cardinality(ByNameAndUser(agents, agent.name, agent.user_id)) > 0

create_agent(agent) ==
    /\ IF AgentNameTaken(agent)
       THEN /\ agents' = agents
            /\ last' = Call("create_agent", agent, "AlreadyExists", {})
       ELSE IF PrimaryKeyTaken(agents, agent)
       THEN /\ agents' = agents
            /\ last' = Call("create_agent", agent, "IntegrityError", {})
       ELSE /\ agents' = agents \cup {agent}
            /\ last' = Call("create_agent", agent, "ok", {})
    /\ UNCHANGED <<users, sources, blocks, tools, jobs, tokens, mappings, files, matched, calls, scan>>

update_agent(agent) ==
    /\ agents' = UpdateRows(agents, agent.id, agent)
    /\ last' = Call("update_agent", agent, "ok", {})
    /\ UNCHANGED <<users, sources, blocks, tools, jobs, tokens, mappings, files, matched, calls, scan>>

\* delete_agent without its second delete statement
delete_agent_RowOnly(agent_id) ==
    /\ agents' = DeleteRows(agents, agent_id)
    /\ matched' = Cardinality(MappingsOfAgent(agent_id))
    /\ last' = Call("delete_agent", [id |-> agent_id], "ok", {})
    /\ UNCHANGED <<users, sources, blocks, tools, jobs, tokens, mappings, files, calls, scan>>

delete_agent(agent_id) ==
    /\ agents' = DeleteRows(agents, agent_id)
    /\ mappings' = mappings \ MappingsOfAgent(agent_id)
    /\ matched' = Cardinality(MappingsOfAgent(agent_id))
    /\ last' = Call("delete_agent", [id |-> agent_id], "ok", {})
    /\ UNCHANGED <<users, sources, blocks, tools, jobs, tokens, files, calls, scan>>

\* get_agent(agent_id, agent_name, user_id): by id when an id is given, else by
\* (name, user id), which the assert requires to be given
AgentKeys ==
    [agent_id : Ids, agent_name : {None}, user_id : {None}]
        \cup [agent_id : {None}, agent_name : Names, user_id : UserIds]

get_agent_results(key) ==
    IF key.agent_id # None
    THEN ById(agents, key.agent_id)
    ELSE ByNameAndUser(agents, key.agent_name, key.user_id)

get_agent(key) ==
    /\ last' = LET r == ExactlyOneOrNone(get_agent_results(key))
               IN Call("get_agent", key, r.res, r.ret)
    /\ UNCHANGED <<users, agents, sources, blocks, tools, jobs, tokens, mappings, files, matched, calls, scan>>

NextAgent ==
    \/ \E agent \in AgentState : create_agent(agent)
    \/ \E agent \in AgentState : update_agent(agent)
    \/ \E agent_id \in Ids : delete_agent(agent_id)
    \/ \E key \in AgentKeys : get_agent(key)

SpecAgent == Init /\ [][NextAgent]_vars

(***************************************************************************)
(* Sources                                                                 *)
(***************************************************************************)
\* the read-before-write check of create_source
SourceNameTaken(source) == Cardinality(ByNameAndUser(sources, source.name, source.user_id)) > 0

\* the row added before the check
create_source_AddFirst(source) ==
    /\ IF SourceNameTaken(source)
       THEN /\ sources' = sources \cup {source}
            /\ last' = Call("create_source", source, "AlreadyExists", {})
       ELSE /\ sources' = sources \cup {source}
            /\ last' = Call("create_source", source, "ok", {})
    /\ UNCHANGED <<users, agents, blocks, tools, jobs, tokens, mappings, files, matched, calls, scan>>

create_source(source) ==
    /\ IF SourceNameTaken(source)
       THEN /\ sources' = sources
            /\ last' = Call("create_source", source, "AlreadyExists", {})
       ELSE IF PrimaryKeyTaken(sources, source)
       THEN /\ sources' = sources
            /\ last' = Call("create_source", source, "IntegrityError", {})
       ELSE /\ sources' = sources \cup {source}
            /\ last' = Call("create_source", source, "ok", {})
    /\ UNCHANGED <<users, agents, blocks, tools, jobs, tokens, mappings, files, matched, calls, scan>>

update_source(source) ==
    /\ sources' = UpdateRows(sources, source.id, source)
    /\ last' = Call("update_source", source, "ok", {})
    /\ UNCHANGED <<users, agents, blocks, tools, jobs, tokens, mappings, files, matched, calls, scan>>

\* delete_source without its second delete statement
delete_source_RowOnly(source_id) ==
    /\ sources' = DeleteRows(sources, source_id)
    /\ matched' = Cardinality(MappingsOfSource(source_id))
    /\ last' = Call("delete_source", [id |-> source_id], "ok", {})
    /\ UNCHANGED <<users, agents, blocks, tools, jobs, tokens, mappings, files, calls, scan>>

\* delete_source with the file rows of the source deleted as well
delete_source_WithFiles(source_id) ==
    /\ sources' = DeleteRows(sources, source_id)
    /\ mappings' = mappings \ MappingsOfSource(source_id)
    /\ matched' = Cardinality(MappingsOfSource(source_id))
    /\ files' = {r \in files : r.source_id # source_id}
    /\ last' = Call("delete_source", [id |-> source_id], "ok", {})
    /\ UNCHANGED <<users, agents, blocks, tools, jobs, tokens, calls, scan>>

delete_source(source_id) ==
    /\ sources' = DeleteRows(sources, source_id)
    /\ mappings' = mappings \ MappingsOfSource(source_id)
    /\ matched' = Cardinality(MappingsOfSource(source_id))
    /\ last' = Call("delete_source", [id |-> source_id], "ok", {})
    /\ UNCHANGED <<users, agents, blocks, tools, jobs, tokens, files, calls, scan>>

SourceKeys ==
    [source_id : Ids, user_id : {None}, source_name : {None}]
        \cup [source_id : {None}, user_id : UserIds, source_name : Names]

get_source_results(key) ==
    IF key.source_id # None
    THEN ById(sources, key.source_id)
    ELSE ByNameAndUser(sources, key.source_name, key.user_id)

get_source(key) ==
    /\ last' = LET r == ExactlyOneOrNone(get_source_results(key))
               IN Call("get_source", key, r.res, r.ret)
    /\ UNCHANGED <<users, agents, sources, blocks, tools, jobs, tokens, mappings, files, matched, calls, scan>>

NextSource ==
    \/ \E source \in Source : create_source(source)
    \/ \E source \in Source : update_source(source)
    \/ \E source_id \in Ids : delete_source(source_id)
    \/ \E key \in SourceKeys : get_source(key)

SpecSource == Init /\ [][NextSource]_vars

(***************************************************************************)
(* Blocks                                                                  *)
(***************************************************************************)
\* the check of create_block: the rows with the block's name, user id and
\* label whose template flag is set
TemplateNameTaken(block) ==
    Cardinality({r \in blocks : /\ r.name = block.name
                                /\ r.user_id = block.user_id
                                /\ r.template = TRUE
                                /\ r.label = block.label}) > 0

create_block(block) ==
    /\ IF TemplateNameTaken(block)
       THEN /\ blocks' = blocks
            /\ last' = Call("create_block", block, "AlreadyExists", {})
       ELSE IF PrimaryKeyTaken(blocks, block)
       THEN /\ blocks' = blocks
            /\ last' = Call("create_block", block, "IntegrityError", {})
       ELSE /\ blocks' = blocks \cup {block}
            /\ last' = Call("create_block", block, "ok", {})
    /\ UNCHANGED <<users, agents, sources, tools, jobs, tokens, mappings, files, matched, calls, scan>>

update_block(block) ==
    /\ blocks' = UpdateRows(blocks, block.id, block)
    /\ last' = Call("update_block", block, "ok", {})
    /\ UNCHANGED <<users, agents, sources, tools, jobs, tokens, mappings, files, matched, calls, scan>>

\* existing_block = query.filter(id == block.id).first()
existing_block(table, block) == ById(table, block.id)

\* the write that adds whatever the read found
UpsertWrite_AlwaysAdd(table, block, existing) ==
    IF PrimaryKeyTaken(table, block)
    THEN [table |-> table, res |-> "IntegrityError"]
    ELSE [table |-> table \cup {block}, res |-> "ok"]

\* the write of update_or_create_block, given what its read found
UpsertWrite(table, block, existing) ==
    IF existing # {}
    THEN [table |-> UpdateRows(table, block.id, block), res |-> "ok"]
    ELSE IF PrimaryKeyTaken(table, block)
    THEN [table |-> table, res |-> "IntegrityError"]
    ELSE [table |-> table \cup {block}, res |-> "ok"]

\* the call's ret is the existing_block it read (the method returns nothing)
update_or_create_block(block) ==
    /\ LET existing == existing_block(blocks, block)
           w == UpsertWrite(blocks, block, existing)
       IN /\ blocks' = w.table
          /\ last' = Call("update_or_create_block", block, w.res, existing)
    /\ UNCHANGED <<users, agents, sources, tools, jobs, tokens, mappings, files, matched, calls, scan>>

delete_block(block_id) ==
    /\ blocks' = DeleteRows(blocks, block_id)
    /\ last' = Call("delete_block", [id |-> block_id], "ok", {})
    /\ UNCHANGED <<users, agents, sources, tools, jobs, tokens, mappings, files, matched, calls, scan>>

get_block(block_id) ==
    /\ last' = LET r == ExactlyOneOrNone(ById(blocks, block_id))
               IN Call("get_block", [id |-> block_id], r.res, r.ret)
    /\ UNCHANGED <<users, agents, sources, blocks, tools, jobs, tokens, mappings, files, matched, calls, scan>>

NextBlock ==
    \/ \E block \in Block : create_block(block)
    \/ \E block \in Block : update_block(block)
    \/ \E block \in Block : update_or_create_block(block)
    \/ \E block_id \in BlockIds : delete_block(block_id)
    \/ \E block_id \in BlockIds : get_block(block_id)

SpecBlock == Init /\ [][NextBlock]_vars

(***************************************************************************)
(* Tools.  A tool's user id is None (a global tool) or a user's id.        *)
(***************************************************************************)
\* get_tool: by id when an id is given; else the global tools of that name
\* followed, when a user id is given, by that user's tools of that name
get_tool_global(tool_name) == {r \in tools : r.name = tool_name /\ r.user_id = None}

get_tool_private(tool_name, user_id) ==
    IF user_id # None
    THEN {r \in tools : r.name = tool_name /\ r.user_id = user_id}
    ELSE {}

get_tool_results(tool_name, tool_id, user_id) ==
    IF tool_id # None
    THEN ById(tools, tool_id)
    ELSE get_tool_global(tool_name) \cup get_tool_private(tool_name, user_id)

\* results[0]: the list holds the global rows first; the engine orders the rows
\* of one query as it likes
get_tool_first(tool_name, tool_id, user_id) ==
    IF tool_id # None THEN ById(tools, tool_id)
    ELSE IF get_tool_global(tool_name) # {} THEN get_tool_global(tool_name)
    ELSE get_tool_private(tool_name, user_id)

\* the returns of get_tool: {} is None, {r} the record of r
get_tool_returns(tool_name, tool_id, user_id) ==
    IF Cardinality(get_tool_results(tool_name, tool_id, user_id)) = 0
    THEN {[res |-> "ok", ret |-> {}]}
    ELSE {[res |-> "ok", ret |-> {r}] : r \in get_tool_first(tool_name, tool_id, user_id)}

ToolKeys ==
    [tool_name : {None}, tool_id : Ids, user_id : {None}]
        \cup [tool_name : Names, tool_id : {None}, user_id : {None} \cup UserIds]

get_tool(key) ==
    /\ \E r \in get_tool_returns(key.tool_name, key.tool_id, key.user_id) :
           last' = Call("get_tool", key, r.res, r.ret)
    /\ UNCHANGED <<users, agents, sources, blocks, tools, jobs, tokens, mappings, files, matched, calls, scan>>

\* the check of create_tool: get_tool(tool_id=tool.id, tool_name=tool.name,
\* user_id=tool.user_id) is not None
ToolExists(tool) ==
    \E r \in get_tool_returns(tool.name, tool.id, tool.user_id) : r.ret # {}

create_tool(tool) ==
    /\ IF ToolExists(tool)
       THEN /\ tools' = tools
            /\ last' = Call("create_tool", tool, "AlreadyExists", {})
       ELSE IF PrimaryKeyTaken(tools, tool)
       THEN /\ tools' = tools
            /\ last' = Call("create_tool", tool, "IntegrityError", {})
       ELSE /\ tools' = tools \cup {tool}
            /\ last' = Call("create_tool", tool, "ok", {})
    /\ UNCHANGED <<users, agents, sources, blocks, jobs, tokens, mappings, files, matched, calls, scan>>

\* update_tool(tool_id, tool): the row with id tool_id takes every column of
\* tool, its id included; an id that another row holds violates the primary key
update_tool(tool_id, tool) ==
    /\ IF /\ ById(tools, tool_id) # {}
          /\ tool.id # tool_id
          /\ PrimaryKeyTaken(tools, tool)
       THEN /\ tools' = tools
            /\ last' = Call("update_tool", [tool_id |-> tool_id, tool |-> tool], "IntegrityError", {})
       ELSE /\ tools' = UpdateRows(tools, tool_id, tool)
            /\ last' = Call("update_tool", [tool_id |-> tool_id, tool |-> tool], "ok", {})
    /\ UNCHANGED <<users, agents, sources, blocks, jobs, tokens, mappings, files, matched, calls, scan>>

delete_tool(tool_id) ==
    /\ tools' = DeleteRows(tools, tool_id)
    /\ last' = Call("delete_tool", [id |-> tool_id], "ok", {})
    /\ UNCHANGED <<users, agents, sources, blocks, jobs, tokens, mappings, files, matched, calls, scan>>

NextTool ==
    \/ \E tool \in Tool : create_tool(tool)
    \/ \E tool_id \in Ids, tool \in Tool : update_tool(tool_id, tool)
    \/ \E tool_id \in Ids : delete_tool(tool_id)
    \/ \E key \in ToolKeys : get_tool(key)

SpecTool == Init /\ [][NextTool]_vars

(***************************************************************************)
(* Jobs                                                                    *)
(***************************************************************************)
create_job(job) ==
    /\ IF PrimaryKeyTaken(jobs, job)
       THEN /\ jobs' = jobs
            /\ last' = Call("create_job", job, "IntegrityError", {})
       ELSE /\ jobs' = jobs \cup {job}
            /\ last' = Call("create_job", job, "ok", {})
    /\ UNCHANGED <<users, agents, sources, blocks, tools, tokens, mappings, files, matched, calls, scan>>

\* update_job(job) returns the class Job, not a record
update_job(job) ==
    /\ jobs' = UpdateRows(jobs, job.id, job)
    /\ last' = Call("update_job", job, "ok", {[class |-> "Job"]})
    /\ UNCHANGED <<users, agents, sources, blocks, tools, tokens, mappings, files, matched, calls, scan>>

\* query.filter(id == job_id).update({"status": status}): completed_at is not
\* among the columns set, so its onupdate=func.now() sets it
SetStatus(table, job_id, status) ==
    {IF r.id = job_id THEN [r EXCEPT !.status = status, !.completed_at = Now] ELSE r : r \in table}

\* query.filter(id == job_id).update({"completed_at": get_utc_time()})
SetCompletedAt(table, job_id) ==
    {IF r.id = job_id THEN [r EXCEPT !.completed_at = Now] ELSE r : r \in table}

\* the status written and no completion time
update_job_status_StatusOnly(job_id, status) ==
    /\ jobs' = {IF r.id = job_id THEN [r EXCEPT !.status = status] ELSE r : r \in jobs}
    /\ last' = Call("update_job_status", [id |-> job_id, status |-> status], "ok", {})
    /\ UNCHANGED <<users, agents, sources, blocks, tools, tokens, mappings, files, matched, calls, scan>>

\* both updates are committed together
update_job_status(job_id, status) ==
    /\ jobs' = IF status = "completed"
               THEN SetCompletedAt(SetStatus(jobs, job_id, status), job_id)
               ELSE SetStatus(jobs, job_id, status)
    /\ last' = Call("update_job_status", [id |-> job_id, status |-> status], "ok", {})
    /\ UNCHANGED <<users, agents, sources, blocks, tools, tokens, mappings, files, matched, calls, scan>>

delete_job(job_id) ==
    /\ jobs' = DeleteRows(jobs, job_id)
    /\ last' = Call("delete_job", [id |-> job_id], "ok", {})
    /\ UNCHANGED <<users, agents, sources, blocks, tools, tokens, mappings, files, matched, calls, scan>>

get_job(job_id) ==
    /\ last' = LET r == ExactlyOneOrNone(ById(jobs, job_id))
               IN Call("get_job", [id |-> job_id], r.res, r.ret)
    /\ UNCHANGED <<users, agents, sources, blocks, tools, jobs, tokens, mappings, files, matched, calls, scan>>

NextJob ==
    \/ \E job \in Job : create_job(job)
    \/ \E job \in Job : update_job(job)
    \/ \E job_id \in Ids, status \in JobStatus : update_job_status(job_id, status)
    \/ \E job_id \in Ids : delete_job(job_id)
    \/ \E job_id \in Ids : get_job(job_id)

SpecJob == Init /\ [][NextJob]_vars

(***************************************************************************)
(* API keys (the tokens table)                                             *)
(***************************************************************************)
ByKey(table, api_key) == {r \in table : r.key = api_key}

get_api_key_return(table, api_key) == ExactlyOneOrNone(ByKey(table, api_key))

\* create_api_key without its check of the token
create_api_key_NoCheck(user_id, name, new_api_key, id) ==
    /\ ById(tokens, id) = {}
    /\ tokens' = tokens \cup {[id |-> id, user_id |-> user_id, key |-> new_api_key, name |-> name]}
    /\ last' = LET r == get_api_key_return(tokens', new_api_key)
               IN Call("create_api_key", [user_id |-> user_id, name |-> name, key |-> new_api_key],
                       r.res, r.ret)
    /\ UNCHANGED <<users, agents, sources, blocks, tools, jobs, mappings, files, matched, calls, scan>>

\* create_api_key that, when its token is taken, returns the record that
\* holds it
create_api_key_ReturnExisting(user_id, name, new_api_key, id) ==
    /\ ById(tokens, id) = {}
    /\ tokens' = IF Cardinality(ByKey(tokens, new_api_key)) > 0 THEN tokens
                 ELSE tokens \cup {[id |-> id, user_id |-> user_id, key |-> new_api_key, name |-> name]}
    /\ last' = LET r == get_api_key_return(tokens', new_api_key)
               IN Call("create_api_key", [user_id |-> user_id, name |-> name, key |-> new_api_key],
                       r.res, r.ret)
    /\ UNCHANGED <<users, agents, sources, blocks, tools, jobs, mappings, files, matched, calls, scan>>

\* create_api_key(user_id, name): new_api_key is the token generate_api_key
\* drew, id the fresh id the APIKey record is given
create_api_key(user_id, name, new_api_key, id) ==
    /\ ById(tokens, id) = {}
    /\ IF Cardinality(ByKey(tokens, new_api_key)) > 0
       THEN /\ tokens' = tokens
            /\ last' = Call("create_api_key", [user_id |-> user_id, name |-> name, key |-> new_api_key],
                            "AlreadyExists", {})
       ELSE /\ tokens' = tokens \cup {[id |-> id, user_id |-> user_id, key |-> new_api_key, name |-> name]}
            /\ last' = LET r == get_api_key_return(tokens', new_api_key)
                       IN Call("create_api_key", [user_id |-> user_id, name |-> name, key |-> new_api_key],
                               r.res, r.ret)
    /\ UNCHANGED <<users, agents, sources, blocks, tools, jobs, mappings, files, matched, calls, scan>>

delete_api_key(api_key) ==
    /\ tokens' = tokens \ ByKey(tokens, api_key)
    /\ last' = Call("delete_api_key", [key |-> api_key], "ok", {})
    /\ UNCHANGED <<users, agents, sources, blocks, tools, jobs, mappings, files, matched, calls, scan>>

get_api_key(api_key) ==
    /\ last' = LET r == get_api_key_return(tokens, api_key)
               IN Call("get_api_key", [key |-> api_key], r.res, r.ret)
    /\ UNCHANGED <<users, agents, sources, blocks, tools, jobs, tokens, mappings, files, matched, calls, scan>>

NextAPIKey ==
    \/ \E user_id \in UserIds, name \in Names, new_api_key \in Keys, id \in Ids :
           create_api_key(user_id, name, new_api_key, id)
    \/ \E api_key \in Keys : delete_api_key(api_key)
    \/ \E api_key \in Keys : get_api_key(api_key)

SpecAPIKey == Init /\ [][NextAPIKey]_vars

(***************************************************************************)
(* update_or_create_block under concurrent callers.  Each call runs in a   *)
(* session of its own: the session reads existing_block, and then writes   *)
(* (update or add) and commits.  The engine serialises the commits and     *)
(* checks the primary key at the write; a read sees the committed rows.    *)
(* calls[p] is the call of caller p: the block it was given, where it is   *)
(* (start, read, done), the existing_block it read and how it ended.       *)
(***************************************************************************)
InitUpsert ==
    /\ users = {}
    /\ agents = {}
    /\ sources = {}
    /\ blocks \in {{}} \cup {{r} : r \in Block}
    /\ tools = {}
    /\ jobs = {}
    /\ tokens = {}
    /\ mappings = {}
    /\ files = {}
    /\ matched = 0
    /\ last = Call("init", [id |-> None], "ok", {})
    /\ calls \in [Procs -> [pc : {"start"}, block : Block, existing : {{}}, res : {"none"}]]
    /\ scan = NoScan

upsert_read(p) ==
    /\ calls[p].pc = "start"
    /\ calls' = [calls EXCEPT ![p].pc = "read",
                              ![p].existing = existing_block(blocks, calls[p].block)]
    /\ UNCHANGED <<users, agents, sources, blocks, tools, jobs, tokens, mappings, files, matched, last, scan>>

upsert_write(p) ==
    /\ calls[p].pc = "read"
    /\ LET w == UpsertWrite(blocks, calls[p].block, calls[p].existing)
       IN /\ blocks' = w.table
          /\ calls' = [calls EXCEPT ![p].pc = "done", ![p].res = w.res]
    /\ UNCHANGED <<users, agents, sources, tools, jobs, tokens, mappings, files, matched, last, scan>>

NextUpsert ==
    \/ \E p \in Procs : upsert_read(p)
    \/ \E p \in Procs : upsert_write(p)

SpecUpsert == InitUpsert /\ [][NextUpsert]_vars

(***************************************************************************)
(* Agent-source mappings.  attach_source and detach_source only write the  *)
(* mapping table: neither looks at the agents or the sources.  The two     *)
(* listings read the mapping rows and look each referent up with           *)
(* get_source / get_agent.                                                 *)
(***************************************************************************)
\* the most mapping rows a run holds
MaxMappings == 3

\* the agent ids and source ids that are attached
AttachIds == {1, 2}

AgentSourceMapping == [user_id : UserIds, agent_id : AttachIds, source_id : AttachIds]

\* str(id): an id as the text an f-string puts in, character by character.
\* The ids below 10 are texts of one character; an id above stands for the
\* text with the separator inside, 12 for "1-2"
IdStr(id) == IF id < 10 THEN <<id>> ELSE <<id \div 10, "-", id % 10>>

\* f"{user_id}-{agent_id}-{source_id}"
mapping_id(user_id, agent_id, source_id) ==
    IdStr(user_id) \o <<"-">> \o IdStr(agent_id) \o <<"-">> \o IdStr(source_id)

\* Column(default=uuid.uuid4) of the legacy mapping table: the n-th id drawn
uuid4(n) == <<"uuid", n>>

\* the rows of the store are those of the letta table (ids from mapping_id),
\* or those of the legacy table (ids from uuid4)
LettaRows == \A m \in mappings : Len(m.id) >= Len(mapping_id(None, None, None))

LegacyRows == \A m \in mappings : Len(m.id) = Len(uuid4(None))

\* the add on a table with no primary key
AddMapping_NoKey(op, row) ==
    /\ Cardinality(mappings) < MaxMappings
    /\ mappings' = mappings \cup {row}
    /\ last' = Call(op, [user_id |-> row.user_id, agent_id |-> row.agent_id,
                         source_id |-> row.source_id], "ok", {})
    /\ UNCHANGED <<users, agents, sources, blocks, tools, jobs, tokens, files, matched, calls, scan>>

\* session.add(AgentSourceMappingModel(...)) and commit
AddMapping(op, row) ==
    /\ PrimaryKeyTaken(mappings, row) \/ Cardinality(mappings) < MaxMappings
    /\ IF PrimaryKeyTaken(mappings, row)
       THEN /\ mappings' = mappings
            /\ last' = Call(op, [user_id |-> row.user_id, agent_id |-> row.agent_id,
                                 source_id |-> row.source_id], "IntegrityError", {})
       ELSE /\ mappings' = mappings \cup {row}
            /\ last' = Call(op, [user_id |-> row.user_id, agent_id |-> row.agent_id,
                                 source_id |-> row.source_id], "ok", {})
    /\ UNCHANGED <<users, agents, sources, blocks, tools, jobs, tokens, files, matched, calls, scan>>

attach_source(user_id, agent_id, source_id) ==
    /\ LettaRows
    /\ AddMapping("attach_source",
                  [id |-> mapping_id(user_id, agent_id, source_id), user_id |-> user_id,
                   agent_id |-> agent_id, source_id |-> source_id])

\* attach_source of the legacy store: the row's id is the column default, n a
\* number no row's id was drawn with
memgpt_attach_source(user_id, agent_id, source_id, n) ==
    /\ LegacyRows
    /\ \A m \in mappings : m.id # uuid4(n)
    /\ AddMapping("memgpt_attach_source",
                  [id |-> uuid4(n), user_id |-> user_id,
                   agent_id |-> agent_id, source_id |-> source_id])

\* the filter with the user id of the first user added
DetachRows_OneUser(agent_id, source_id) ==
    {m \in mappings : m.agent_id = agent_id /\ m.source_id = source_id /\ m.user_id = 1}

\* the rows the filter of detach_source matches
DetachRows(agent_id, source_id) ==
    {m \in mappings : m.agent_id = agent_id /\ m.source_id = source_id}

detach_source(agent_id, source_id) ==
    /\ mappings' = mappings \ DetachRows(agent_id, source_id)
    /\ matched' = Cardinality(DetachRows(agent_id, source_id))
    /\ last' = Call("detach_source", [agent_id |-> agent_id, source_id |-> source_id], "ok", {})
    /\ UNCHANGED <<users, agents, sources, blocks, tools, jobs, tokens, files, calls, scan>>

\* query.all() with no order_by: the rows in an order of the engine's choosing
AllOrders(rows) ==
    {results \in [1..Cardinality(rows) -> rows] :
        \A i, j \in 1..Cardinality(rows) : results[i] = results[j] => i = j}

\* the loop of list_attached_sources: the record of each row's source that
\* get_source finds, in the order of the rows; a get_source that raises ends
\* the call
RECURSIVE AttachedSources(_)
AttachedSources(results) ==
    IF results = <<>> THEN [res |-> "ok", ret |-> <<>>]
    ELSE LET source == ExactlyOneOrNone(get_source_results(
                           [source_id |-> Head(results).source_id, user_id |-> None, source_name |-> None]))
             rest == AttachedSources(Tail(results))
         IN IF source.res # "ok" THEN [res |-> source.res, ret |-> <<>>]
            ELSE IF rest.res # "ok" THEN rest
            ELSE IF source.ret # {}
            THEN [res |-> "ok", ret |-> <<CHOOSE s \in source.ret : TRUE>> \o rest.ret]
            ELSE rest

list_attached_sources(agent_id) ==
    /\ \E results \in AllOrders(MappingsOfAgent(agent_id)) :
          LET r == AttachedSources(results)
          IN last' = Call("list_attached_sources", [id |-> agent_id], r.res,
                          IF r.res = "ok" THEN {r.ret} ELSE {})
    /\ UNCHANGED <<users, agents, sources, blocks, tools, jobs, tokens, mappings, files, matched, calls, scan>>

\* the loop without the lookup: the agent id of every row
AttachedAgents_NoLookup(results) ==
    [res |-> "ok", ret |-> [i \in 1..Len(results) |-> results[i].agent_id]]

\* the loop of list_attached_agents: the agent id of each row whose agent
\* get_agent finds
RECURSIVE AttachedAgents(_)
AttachedAgents(results) ==
    IF results = <<>> THEN [res |-> "ok", ret |-> <<>>]
    ELSE LET agent == ExactlyOneOrNone(get_agent_results(
                          [agent_id |-> Head(results).agent_id, agent_name |-> None, user_id |-> None]))
             rest == AttachedAgents(Tail(results))
         IN IF agent.res # "ok" THEN [res |-> agent.res, ret |-> <<>>]
            ELSE IF rest.res # "ok" THEN rest
            ELSE IF agent.ret # {}
            THEN [res |-> "ok", ret |-> <<Head(results).agent_id>> \o rest.ret]
            ELSE rest

list_attached_agents(source_id) ==
    /\ \E results \in AllOrders(MappingsOfSource(source_id)) :
          LET r == AttachedAgents(results)
          IN last' = Call("list_attached_agents", [id |-> source_id], r.res,
                          IF r.res = "ok" THEN {r.ret} ELSE {})
    /\ UNCHANGED <<users, agents, sources, blocks, tools, jobs, tokens, mappings, files, matched, calls, scan>>

\* the agents and the sources of the runs with mappings: one of each id
AttachedAgentStates == {[id |-> i, user_id |-> 1, name |-> i] : i \in AttachIds}

AttachedSourceRows == {[id |-> i, user_id |-> 1, name |-> i] : i \in AttachIds}

NextMapping ==
    \/ \E agent \in AttachedAgentStates : create_agent(agent)
    \/ \E agent_id \in AttachIds : delete_agent(agent_id)
    \/ \E source \in AttachedSourceRows : create_source(source)
    \/ \E source_id \in AttachIds : delete_source(source_id)
    \/ \E m \in AgentSourceMapping : attach_source(m.user_id, m.agent_id, m.source_id)
    \/ \E agent_id \in AttachIds, source_id \in AttachIds : detach_source(agent_id, source_id)
    \/ \E agent_id \in AttachIds : list_attached_sources(agent_id)
    \/ \E source_id \in AttachIds : list_attached_agents(source_id)

SpecMapping == Init /\ [][NextMapping]_vars

\* the mapping table of the letta store and of the legacy store
NextAttach ==
    \/ \E m \in AgentSourceMapping : attach_source(m.user_id, m.agent_id, m.source_id)
    \/ \E m \in AgentSourceMapping, n \in 1..MaxMappings :
           memgpt_attach_source(m.user_id, m.agent_id, m.source_id, n)
    \/ \E agent_id \in AttachIds, source_id \in AttachIds : detach_source(agent_id, source_id)

SpecAttach == Init /\ [][NextAttach]_vars

(***************************************************************************)
(* Listings with a cursor: list_tools and list_files_from_source.  A page  *)
(* is the rows in scope whose id is greater than the cursor, in ascending  *)
(* id order, cut at the limit.  scan is a caller that reads a store page   *)
(* by page: it starts with no cursor and passes the last id of each page   *)
(* as the cursor of the next call, until a page comes back empty.          *)
(***************************************************************************)
\* the ids of the rows that are listed, and the largest limit
NumPageIds == 3
MaxLimit == 3

PageIds == 1..NumPageIds
Limits == 1..MaxLimit

FileMetadata == [id : PageIds, user_id : UserIds, source_id : AttachIds]

\* the tools that are listed: the listing reads no name
ListedTool == [id : PageIds, user_id : {None} \cup UserIds, name : {1}]

\* the tables over the rows: the primary key holds
Tables(rows) == {t \in SUBSET rows : \A r1, r2 \in t : r1.id = r2.id => r1 = r2}

\* order_by(asc(id))
RECURSIVE OrderById(_)
OrderById(rows) ==
    IF rows = {} THEN <<>>
    ELSE LET first == CHOOSE r \in rows : \A q \in rows : r.id <= q.id
         IN <<first>> \o OrderById(rows \ {first})

\* .limit(limit)
Limit(results, limit) ==
    IF Len(results) <= limit THEN results ELSE SubSeq(results, 1, limit)

\* the cursor filter with >= for >
AfterCursor_Inclusive(rows, cursor) ==
    IF cursor # None THEN {r \in rows : r.id >= cursor} ELSE rows

\* if cursor: query.filter(id > cursor)
AfterCursor(rows, cursor) ==
    IF cursor # None THEN {r \in rows : r.id > cursor} ELSE rows

\* the scope filter left out
ToolsInScope_All(user_id) == tools

\* filter(or_(ToolModel.user_id == None, ToolModel.user_id == user_id))
ToolsInScope(user_id) == {r \in tools : r.user_id = None \/ r.user_id = user_id}

list_tools_results(cursor, limit, user_id) ==
    Limit(OrderById(AfterCursor(ToolsInScope(user_id), cursor)), limit)

list_tools(cursor, limit, user_id) ==
    /\ last' = Call("list_tools", [cursor |-> cursor, limit |-> limit, user_id |-> user_id],
                    "ok", {list_tools_results(cursor, limit, user_id)})
    /\ UNCHANGED <<users, agents, sources, blocks, tools, jobs, tokens, mappings, files, matched, calls, scan>>

\* filter(FileMetadataModel.source_id == source_id)
FilesOfSource(source_id) == {r \in files : r.source_id = source_id}

list_files_from_source_results(source_id, limit, cursor) ==
    Limit(OrderById(AfterCursor(FilesOfSource(source_id), cursor)), limit)

list_files_from_source(source_id, limit, cursor) ==
    /\ last' = Call("list_files_from_source",
                    [source_id |-> source_id, limit |-> limit, cursor |-> cursor],
                    "ok", {list_files_from_source_results(source_id, limit, cursor)})
    /\ UNCHANGED <<users, agents, sources, blocks, tools, jobs, tokens, mappings, files, matched, calls, scan>>

\* the ids of a page
PageIdsOf(page) == [i \in 1..Len(page) |-> page[i].id]

\* the caller's state after a page: the page is kept with the cursor it was
\* asked with, its last id is the next cursor, an empty page ends the listing.
\* inscope is the ids the store had in scope at the call: kept is the ids
\* that were in scope at every call so far
AfterPage(page, inscope) ==
    [scan EXCEPT !.pages = Append(@, [cursor |-> scan.cursor, ids |-> PageIdsOf(page)]),
                 !.cursor = IF page = <<>> THEN @ ELSE page[Len(page)].id,
                 !.kept = @ \cap inscope,
                 !.done = (page = <<>>)]

\* the caller's next list_tools call
page_tools ==
    /\ scan.kind = "tools"
    /\ ~scan.done
    /\ last' = Call("list_tools",
                    [cursor |-> scan.cursor, limit |-> scan.limit, user_id |-> scan.scope],
                    "ok", {list_tools_results(scan.cursor, scan.limit, scan.scope)})
    /\ scan' = AfterPage(list_tools_results(scan.cursor, scan.limit, scan.scope),
                          {r.id : r \in ToolsInScope(scan.scope)})
    /\ UNCHANGED <<users, agents, sources, blocks, tools, jobs, tokens, mappings, files, matched, calls>>

\* the caller's next list_files_from_source call
page_files ==
    /\ scan.kind = "files"
    /\ ~scan.done
    /\ last' = Call("list_files_from_source",
                    [source_id |-> scan.scope, limit |-> scan.limit, cursor |-> scan.cursor],
                    "ok", {list_files_from_source_results(scan.scope, scan.limit, scan.cursor)})
    /\ scan' = AfterPage(list_files_from_source_results(scan.scope, scan.limit, scan.cursor),
                          {r.id : r \in FilesOfSource(scan.scope)})
    /\ UNCHANGED <<users, agents, sources, blocks, tools, jobs, tokens, mappings, files, matched, calls>>

\* a caller about to list: no cursor yet, no page read
Scans(kind, scopes) ==
    [kind : {kind}, scope : scopes, limit : Limits, cursor : {None}, pages : {<<>>},
     kept : {PageIds}, done : {FALSE}]

\* a store of tools or a store of files, and a caller that lists it page by
\* page or with cursors of its choosing
InitPaging ==
    /\ users = {}
    /\ agents = {}
    /\ sources = {}
    /\ blocks = {}
    /\ jobs = {}
    /\ tokens = {}
    /\ mappings = {}
    /\ matched = 0
    /\ last = Call("init", [id |-> None], "ok", {})
    /\ calls = [p \in Procs |-> NoCall]
    /\ \/ /\ tools \in Tables(ListedTool)
          /\ files = {}
          /\ scan \in {NoScan} \cup Scans("tools", {None} \cup UserIds)
       \/ /\ tools = {}
          /\ files \in Tables(FileMetadata)
          /\ scan \in {NoScan} \cup Scans("files", AttachIds)

NextPaging ==
    \/ page_tools
    \/ page_files
    \/ /\ scan = NoScan
       /\ files = {}
       /\ \E cursor \in {None} \cup PageIds, limit \in Limits, user_id \in {None} \cup UserIds :
              list_tools(cursor, limit, user_id)
    \/ /\ scan = NoScan
       /\ tools = {}
       /\ \E source_id \in AttachIds, limit \in Limits, cursor \in {None} \cup PageIds :
              list_files_from_source(source_id, limit, cursor)

SpecPaging == InitPaging /\ [][NextPaging]_vars

\* the tools of the store that changes: global ones, in the scope of the
\* caller, and those of another user, out of it
ChangingTools == {tool \in ListedTool : tool.user_id \in {None, 2}}

\* a caller, user 1, that lists the tools page by page while tools are
\* created and deleted between its calls
InitPagingChange ==
    /\ InitPaging
    /\ scan.kind = "tools"
    /\ scan.scope = 1
    /\ tools \subseteq ChangingTools

NextPagingChange ==
    \/ page_tools
    \/ \E tool \in ChangingTools : create_tool(tool)
    \/ \E tool_id \in PageIds : delete_tool(tool_id)

SpecPagingChange == InitPagingChange /\ [][NextPagingChange]_vars

(***************************************************************************)
(* create_api_key under concurrent callers.  A call draws its token, then  *)
(* in one session counts the rows with the token and, finding none, adds   *)
(* its row and commits; after that session is closed it calls get_api_key, *)
(* a session of its own, and returns what that finds.  calls[p] is the     *)
(* call of caller p: its arguments, the token it drew, where it is (start, *)
(* checked, added, done), how it ended and what it returned.  The record's *)
(* id is fresh for each call: here the caller's number.  Other callers     *)
(* delete keys in between.                                                 *)
(***************************************************************************)
InitKeyRace ==
    /\ users = {}
    /\ agents = {}
    /\ sources = {}
    /\ blocks = {}
    /\ tools = {}
    /\ jobs = {}
    /\ tokens = {}
    /\ mappings = {}
    /\ files = {}
    /\ matched = 0
    /\ last = Call("init", [id |-> None], "ok", {})
    /\ calls \in [Procs -> [pc : {"start"}, user_id : UserIds, name : Names, key : Keys,
                            res : {"none"}, ret : {{}}]]
    /\ scan = NoScan

\* the count of the rows that hold the token, and the raise
create_api_key_check(p) ==
    /\ calls[p].pc = "start"
    /\ calls' = IF Cardinality(ByKey(tokens, calls[p].key)) > 0
                THEN [calls EXCEPT ![p].pc = "done", ![p].res = "AlreadyExists"]
                ELSE [calls EXCEPT ![p].pc = "checked"]
    /\ UNCHANGED <<users, agents, sources, blocks, tools, jobs, tokens, mappings, files, matched, last, scan>>

\* session.add(APIKeyModel(**vars(token))) and the commit
create_api_key_add(p) ==
    /\ calls[p].pc = "checked"
    /\ tokens' = tokens \cup {[id |-> p, user_id |-> calls[p].user_id,
                               key |-> calls[p].key, name |-> calls[p].name]}
    /\ calls' = [calls EXCEPT ![p].pc = "added"]
    /\ UNCHANGED <<users, agents, sources, blocks, tools, jobs, mappings, files, matched, last, scan>>

\* return self.get_api_key(api_key=new_api_key)
create_api_key_return(p) ==
    /\ calls[p].pc = "added"
    /\ calls' = LET r == get_api_key_return(tokens, calls[p].key)
                IN [calls EXCEPT ![p].pc = "done", ![p].res = r.res, ![p].ret = r.ret]
    /\ UNCHANGED <<users, agents, sources, blocks, tools, jobs, tokens, mappings, files, matched, last, scan>>

NextKeyRace ==
    \/ \E p \in Procs : create_api_key_check(p)
    \/ \E p \in Procs : create_api_key_add(p)
    \/ \E p \in Procs : create_api_key_return(p)
    \/ \E api_key \in Keys : delete_api_key(api_key)

SpecKeyRace == InitKeyRace /\ [][NextKeyRace]_vars

(***************************************************************************)
(* generate_api_key(prefix, length).  A token is a sequence of characters: *)
(* the prefix, then two hexadecimal digits for each random byte.           *)
(***************************************************************************)
\* the largest length asked for
MaxKeyLength == 8

\* the prefixes: none, and the beginnings of the default "sk-"
Prefixes == {<<>>, <<"s">>, <<"s", "k">>, <<"s", "k", "-">>}

\* the values of a random byte that are drawn
RandomBytes == {0, 171, 255}

HexDigits == <<"0", "1", "2", "3", "4", "5", "6", "7", "8", "9", "a", "b", "c", "d", "e", "f">>

\* bytes.hex(): two digits a byte, the high one first
RECURSIVE hex(_)
hex(bytes) ==
    IF bytes = <<>> THEN <<>>
    ELSE <<HexDigits[(Head(bytes) \div 16) + 1], HexDigits[(Head(bytes) % 16) + 1]>>
             \o hex(Tail(bytes))

\* max(length - len(prefix), 1) // 2
actual_length(prefix, length) ==
    (IF length - Len(prefix) > 1 THEN length - Len(prefix) ELSE 1) \div 2

generate_api_key(prefix, length) ==
    /\ \E random_bytes \in [1..actual_length(prefix, length) -> RandomBytes] :
          last' = Call("generate_api_key", [prefix |-> prefix, length |-> length],
                       "ok", {prefix \o hex(random_bytes)})
    /\ UNCHANGED <<users, agents, sources, blocks, tools, jobs, tokens, mappings, files, matched, calls, scan>>

NextGenerate ==
    \E prefix \in Prefixes, length \in 1..MaxKeyLength : generate_api_key(prefix, length)

SpecGenerate == Init /\ [][NextGenerate]_vars

(***************************************************************************)
(* The column codecs: LLMConfigColumn, EmbeddingConfigColumn and           *)
(* ToolCallColumn.  process_bind_param turns the value of an attribute     *)
(* into what the JSON column stores, process_result_value turns what is    *)
(* stored into the value of the attribute.  A Python value is a record     *)
(* with its class: an object with its fields, a dict with its keys, a list *)
(* with its items, None.                                                   *)
(***************************************************************************)
\* the longest list of tool calls
MaxToolCalls == 2

PyNone == [class |-> "NoneType"]

EmptyDict == [class |-> "dict"]

PyList(items) == [class |-> "list", items |-> items]

\* the lists over a set of elements
ListsOf(elements) ==
    {PyList(items) : items \in UNION {[1..n -> elements] : n \in 0..MaxToolCalls}}

LLMConfig == [class : {"LLMConfig"}, model : {"gpt-4", "llama"}, context_window : {"8k", "32k"}]

EmbeddingConfig ==
    [class : {"EmbeddingConfig"}, embedding_model : {"ada", "bge"}, embedding_dim : {"1536", "768"}]

ToolCallFunction == [class : {"ToolCallFunction"}, name : {"send_message"}, arguments : {"{}", "{x}"}]

ToolCall == [class : {"ToolCall"}, id : {"call-1", "call-2"}, function : ToolCallFunction]

\* bool(value) of an if: None, an empty dict and an empty list are false
Truthy(value) ==
    CASE value.class = "NoneType" -> FALSE
      [] value.class = "dict" -> value # EmptyDict
      [] value.class = "list" -> value.items # <<>>
      [] OTHER -> TRUE

\* value.model_dump(): the dict of the fields of an object, the objects among
\* them dumped as well
model_dump(value) ==
    IF "function" \in DOMAIN value
    THEN [value EXCEPT !.class = "dict", !.function = [@ EXCEPT !.class = "dict"]]
    ELSE [value EXCEPT !.class = "dict"]

\* Class(**value): the object of the class with the fields the dict gives
Construct(class, value) == [value EXCEPT !.class = class]

\* process_bind_param with an empty mapping stored for no value
ConfigBindParam_EmptyDict(class, value) ==
    IF Truthy(value) /\ value.class = class THEN model_dump(value) ELSE EmptyDict

\* process_bind_param of LLMConfigColumn and EmbeddingConfigColumn, class the
\* class of the column
ConfigBindParam(class, value) ==
    IF Truthy(value) /\ value.class = class THEN model_dump(value) ELSE value

\* process_result_value of LLMConfigColumn and EmbeddingConfigColumn
ConfigResultValue(class, value) ==
    IF Truthy(value) THEN Construct(class, value) ELSE value

\* process_bind_param of ToolCallColumn
ToolCallBindParam(value) ==
    IF Truthy(value)
    THEN PyList([i \in 1..Len(value.items) |->
                    IF value.items[i].class = "ToolCall"
                    THEN model_dump(value.items[i]) ELSE value.items[i]])
    ELSE value

\* the body of the loop of process_result_value: ToolCallFunction(**None)
\* is a TypeError
ToolCallOf(tool_value) ==
    IF "function" \in DOMAIN tool_value
    THEN IF tool_value.function = PyNone
         THEN [res |-> "TypeError", ret |-> PyNone]
         ELSE [res |-> "ok",
               ret |-> [class |-> "ToolCall", id |-> tool_value.id,
                        function |-> Construct("ToolCallFunction", tool_value.function)]]
    ELSE [res |-> "ok", ret |-> [class |-> "ToolCall", id |-> tool_value.id, function |-> PyNone]]

\* process_result_value of ToolCallColumn: the first element that raises ends it
ToolCallResultValue(value) ==
    IF Truthy(value)
    THEN IF \E i \in 1..Len(value.items) : ToolCallOf(value.items[i]).res # "ok"
         THEN [res |-> "TypeError", ret |-> PyNone]
         ELSE [res |-> "ok",
               ret |-> PyList([i \in 1..Len(value.items) |-> ToolCallOf(value.items[i]).ret])]
    ELSE [res |-> "ok", ret |-> value]

\* an attribute written and read back: the value is bound, stored, and the
\* stored value is turned into the attribute again
store_config(class, value) ==
    /\ last' = LET stored == ConfigBindParam(class, value)
               IN Call("store_config", [column |-> class, value |-> value], "ok",
                       {[stored |-> stored, loaded |-> ConfigResultValue(class, stored)]})
    /\ UNCHANGED <<users, agents, sources, blocks, tools, jobs, tokens, mappings, files, matched, calls, scan>>

store_tool_calls(value) ==
    /\ last' = LET stored == ToolCallBindParam(value)
                   loaded == ToolCallResultValue(stored)
               IN Call("store_tool_calls", [value |-> value], loaded.res,
                       {[stored |-> stored, loaded |-> loaded.ret]})
    /\ UNCHANGED <<users, agents, sources, blocks, tools, jobs, tokens, mappings, files, matched, calls, scan>>

\* the elements a tool-call column can hold: dicts with an id and, or not, a
\* function that is a dict, an empty dict or null
StoredToolCalls ==
    [class : {"dict"}, id : {"call-1", "call-2"}]
        \cup [class : {"dict"}, id : {"call-1", "call-2"},
              function : {PyNone, EmptyDict} \cup {model_dump(f) : f \in ToolCallFunction}]

\* a stored list of tool calls read
load_tool_calls(value) ==
    /\ last' = LET loaded == ToolCallResultValue(value)
               IN Call("load_tool_calls", [value |-> value], loaded.res, {loaded.ret})
    /\ UNCHANGED <<users, agents, sources, blocks, tools, jobs, tokens, mappings, files, matched, calls, scan>>

NextCodec ==
    \/ \E value \in LLMConfig \cup {PyNone} : store_config("LLMConfig", value)
    \/ \E value \in EmbeddingConfig \cup {PyNone} : store_config("EmbeddingConfig", value)
    \/ \E value \in ListsOf(ToolCall) \cup {PyNone} : store_tool_calls(value)
    \/ \E value \in ListsOf(StoredToolCalls) \cup {PyNone} : load_tool_calls(value)

SpecCodec == Init /\ [][NextCodec]_vars

(***************************************************************************)
(* Sessions.  Every operation works inside `with self.session_maker() as   *)
(* session`; an operation that calls another operation of the store inside *)
(* its with block opens that operation's session inside its own, and one   *)
(* that calls it after the block opens a second session after the first.   *)
(* calls[p] is the operation caller p runs, the sessions it has open and   *)
(* the sessions it has opened.                                             *)
(***************************************************************************)
SessionOps ==
    {"create_tool", "list_attached_sources", "list_attached_agents", "create_api_key",
     "get_tool", "get_source", "get_agent", "get_api_key", "delete_api_key", "detach_source"}

RECURSIVE Lookups(_)
\* the sessions of the get_source or get_agent calls of the loop over the
\* mapping rows
Lookups(rows) == IF rows = 0 THEN <<>> ELSE <<"enter", "exit">> \o Lookups(rows - 1)

\* the sessions an operation enters and exits, in the order of its code; rows
\* is the number of mapping rows the listing finds
Sessions(op, rows) ==
    CASE op = "create_tool" -> <<"enter", "enter", "exit", "exit">>
      [] op \in {"list_attached_sources", "list_attached_agents"}
            -> <<"enter">> \o Lookups(rows) \o <<"exit">>
      [] op = "create_api_key" -> <<"enter", "exit", "enter", "exit">>
      [] op = "none" -> <<>>
      [] OTHER -> <<"enter", "exit">>

NoOperation == [op |-> "none", rows |-> 0, pc |-> 0, open |-> 0, opened |-> 0]

InitSession ==
    /\ users = {}
    /\ agents = {}
    /\ sources = {}
    /\ blocks = {}
    /\ tools = {}
    /\ jobs = {}
    /\ tokens = {}
    /\ mappings = {}
    /\ files = {}
    /\ matched = 0
    /\ last = Call("init", [id |-> None], "ok", {})
    /\ calls = [p \in Procs |-> NoOperation]
    /\ scan = NoScan

\* caller p, between two operations, calls an operation
begin(p, op, rows) ==
    /\ calls[p].pc = Len(Sessions(calls[p].op, calls[p].rows))
    /\ calls' = [calls EXCEPT ![p] = [op |-> op, rows |-> rows, pc |-> 0, open |-> 0, opened |-> 0]]
    /\ UNCHANGED <<users, agents, sources, blocks, tools, jobs, tokens, mappings, files, matched, last, scan>>

\* with self.session_maker() as session: the block is entered
enter_session(p) ==
    /\ calls[p].pc < Len(Sessions(calls[p].op, calls[p].rows))
    /\ Sessions(calls[p].op, calls[p].rows)[calls[p].pc + 1] = "enter"
    /\ calls' = [calls EXCEPT ![p].pc = @ + 1, ![p].open = @ + 1, ![p].opened = @ + 1]
    /\ UNCHANGED <<users, agents, sources, blocks, tools, jobs, tokens, mappings, files, matched, last, scan>>

\* the with block is left
exit_session(p) ==
    /\ calls[p].pc < Len(Sessions(calls[p].op, calls[p].rows))
    /\ Sessions(calls[p].op, calls[p].rows)[calls[p].pc + 1] = "exit"
    /\ calls' = [calls EXCEPT ![p].pc = @ + 1, ![p].open = @ - 1]
    /\ UNCHANGED <<users, agents, sources, blocks, tools, jobs, tokens, mappings, files, matched, last, scan>>

NextSession ==
    \/ \E p \in Procs, op \in SessionOps :
          \E rows \in IF op \in {"list_attached_sources", "list_attached_agents"}
                      THEN 0..MaxMappings ELSE {0} : begin(p, op, rows)
    \/ \E p \in Procs : enter_session(p)
    \/ \E p \in Procs : exit_session(p)

SpecSession == InitSession /\ [][NextSession]_vars

(***************************************************************************)
(* Two callers of create_agent, each in a session of its own: the count of *)
(* the rows with the name and the user, then the insert and the commit.    *)
(* A session reads the rows that are committed.                            *)
(***************************************************************************)
InitAgentRace ==
    /\ users = {}
    /\ agents = {}
    /\ sources = {}
    /\ blocks = {}
    /\ tools = {}
    /\ jobs = {}
    /\ tokens = {}
    /\ mappings = {}
    /\ files = {}
    /\ matched = 0
    /\ last = Call("init", [id |-> None], "ok", {})
    /\ calls \in [Procs -> [pc : {"start"}, agent : AgentState, res : {"none"}]]
    /\ scan = NoScan

\* the count of the rows with the name and the user, and the raise
create_agent_check(p) ==
    /\ calls[p].pc = "start"
    /\ calls' = IF AgentNameTaken(calls[p].agent)
                THEN [calls EXCEPT ![p].pc = "done", ![p].res = "AlreadyExists"]
                ELSE [calls EXCEPT ![p].pc = "checked"]
    /\ UNCHANGED <<users, agents, sources, blocks, tools, jobs, tokens, mappings, files, matched, last, scan>>

\* session.add(AgentModel(**fields)) and the commit
create_agent_add(p) ==
    /\ calls[p].pc = "checked"
    /\ IF PrimaryKeyTaken(agents, calls[p].agent)
       THEN /\ agents' = agents
            /\ calls' = [calls EXCEPT ![p].pc = "done", ![p].res = "IntegrityError"]
       ELSE /\ agents' = agents \cup {calls[p].agent}
            /\ calls' = [calls EXCEPT ![p].pc = "done", ![p].res = "ok"]
    /\ UNCHANGED <<users, sources, blocks, tools, jobs, tokens, mappings, files, matched, last, scan>>

NextAgentRace ==
    \/ \E p \in Procs : create_agent_check(p)
    \/ \E p \in Procs : create_agent_add(p)

SpecAgentRace == InitAgentRace /\ [][NextAgentRace]_vars

(***************************************************************************)
(* The file metadata of the sources: delete_file_from_source beside        *)
(* delete_source, over a store that holds file rows, of sources that are   *)
(* there and of sources that are not.                                      *)
(***************************************************************************)
\* .filter(source_id == source_id, id == file_id, user_id == user_id).first(),
\* then session.delete and the commit when a row is found; the row found is
\* returned, None when there is none
delete_file_from_source(source_id, file_id, user_id) ==
    LET found == {r \in files : r.source_id = source_id /\ r.id = file_id /\ r.user_id = user_id}
    IN /\ files' = files \ found
       /\ last' = Call("delete_file_from_source",
                       [source_id |-> source_id, file_id |-> file_id, user_id |-> user_id],
                       "ok", found)
       /\ UNCHANGED <<users, agents, sources, blocks, tools, jobs, tokens, mappings, matched, calls, scan>>

InitFile ==
    /\ users = {}
    /\ agents = {}
    /\ sources \in SUBSET {[id |-> i, user_id |-> 1, name |-> 1] : i \in AttachIds}
    /\ blocks = {}
    /\ tools = {}
    /\ jobs = {}
    /\ tokens = {}
    /\ mappings = {}
    /\ files \in Tables(FileMetadata)
    /\ matched = 0
    /\ last = Call("init", [id |-> None], "ok", {})
    /\ calls = [p \in Procs |-> NoCall]
    /\ scan = NoScan

NextFile ==
    \/ \E source_id \in AttachIds : delete_source(source_id)
    \/ \E source_id \in AttachIds, file_id \in PageIds, user_id \in {None} \cup UserIds :
          delete_file_from_source(source_id, file_id, user_id)

SpecFile == InitFile /\ [][NextFile]_vars

(***************************************************************************)
(* The mapping table with ids that hold the separator: the id columns are  *)
(* strings, and attach_source puts any three of them into the row's id.    *)
(***************************************************************************)
\* agent ids and source ids with and without a "-" inside
SeparatorIds == {1, 11}

NextSeparator ==
    \/ \E user_id \in UserIds, agent_id \in SeparatorIds, source_id \in SeparatorIds :
          attach_source(user_id, agent_id, source_id)
    \/ \E agent_id \in SeparatorIds, source_id \in SeparatorIds : detach_source(agent_id, source_id)

SpecSeparator == Init /\ [][NextSeparator]_vars

(***************************************************************************)
(* The users of the legacy store and get_all_users(cursor, limit): the     *)
(* users in descending id order, those below the cursor, cut at the limit, *)
(* with the id of the last one as the next cursor; (None, []) when there   *)
(* is none.                                                                *)
(***************************************************************************)
User == [id : PageIds]

\* order_by(desc(UserModel.id))
RECURSIVE OrderByIdDesc(_)
OrderByIdDesc(rows) ==
    IF rows = {} THEN <<>>
    ELSE LET first == CHOOSE r \in rows : \A q \in rows : r.id >= q.id
         IN <<first>> \o OrderByIdDesc(rows \ {first})

\* the cursor filter with <= for <
BeforeCursor_Inclusive(rows, cursor) ==
    IF cursor # None THEN {r \in rows : r.id <= cursor} ELSE rows

\* if cursor: query.filter(UserModel.id < cursor)
BeforeCursor(rows, cursor) ==
    IF cursor # None THEN {r \in rows : r.id < cursor} ELSE rows

\* the pair get_all_users returns: the next cursor and the records
get_all_users_results(cursor, limit) ==
    LET results == Limit(OrderByIdDesc(BeforeCursor(users, cursor)), limit)
    IN IF results = <<>>
       THEN [next_cursor |-> None, users |-> <<>>]
       ELSE [next_cursor |-> results[Len(results)].id, users |-> results]

get_all_users(cursor, limit) ==
    /\ last' = Call("get_all_users", [cursor |-> cursor, limit |-> limit], "ok",
                    {get_all_users_results(cursor, limit)})
    /\ UNCHANGED <<users, agents, sources, blocks, tools, jobs, tokens, mappings, files, matched, calls, scan>>

\* the caller's next get_all_users call: the cursor it passes is the next
\* cursor of the call before, and an empty list ends the listing
page_users ==
    /\ scan.kind = "users"
    /\ ~scan.done
    /\ LET r == get_all_users_results(scan.cursor, scan.limit)
       IN /\ last' = Call("get_all_users", [cursor |-> scan.cursor, limit |-> scan.limit],
                          "ok", {r})
          /\ scan' = [scan EXCEPT !.pages = Append(@, [cursor |-> scan.cursor,
                                                       ids |-> PageIdsOf(r.users)]),
                                  !.cursor = r.next_cursor,
                                  !.kept = @ \cap {u.id : u \in users},
                                  !.done = (r.users = <<>>)]
    /\ UNCHANGED <<users, agents, sources, blocks, tools, jobs, tokens, mappings, files, matched, calls>>

\* a table of users, and a caller that lists it page by page or with cursors
\* of its choosing
InitUsers ==
    /\ users \in SUBSET User
    /\ agents = {}
    /\ sources = {}
    /\ blocks = {}
    /\ tools = {}
    /\ jobs = {}
    /\ tokens = {}
    /\ mappings = {}
    /\ files = {}
    /\ matched = 0
    /\ last = Call("init", [id |-> None], "ok", {})
    /\ calls = [p \in Procs |-> NoCall]
    /\ scan \in {NoScan} \cup Scans("users", {None})

NextUsers ==
    \/ page_users
    \/ /\ scan = NoScan
       /\ \E cursor \in {None} \cup PageIds, limit \in Limits : get_all_users(cursor, limit)

SpecUsers == InitUsers /\ [][NextUsers]_vars

(***************************************************************************)
(* get_blocks(user_id, label, template, name, id): a filter is added for   *)
(* every criterion that is truthy.  An optional criterion is a set here:   *)
(* {} for None, {v} for the value v.                                       *)
(***************************************************************************)
Optional(values) == {{}} \cup {{v} : v \in values}

\* if label:, if name:, if id: of a string that is not empty, or None
Given(criterion) == criterion # {}

\* if template: of a bool or None: neither None nor False passes
GivenTrue(template) == template = {TRUE}

\* the rows the query of get_blocks matches
get_blocks_results(user_id, label, template, name, id) ==
    {r \in blocks :
        /\ user_id # None => r.user_id = user_id
        /\ Given(label) => r.label \in label
        /\ Given(name) => r.name \in name
        /\ Given(id) => r.id \in id
        /\ GivenTrue(template) => r.template \in template}

\* None when no row matches, else the records in the order of .all()
get_blocks(user_id, label, template, name, id) ==
    /\ LET results == get_blocks_results(user_id, label, template, name, id)
           arg == [user_id |-> user_id, label |-> label, template |-> template,
                   name |-> name, id |-> id]
       IN IF Cardinality(results) = 0
          THEN last' = Call("get_blocks", arg, "ok", {})
          ELSE \E records \in AllOrders(results) : last' = Call("get_blocks", arg, "ok", {records})
    /\ UNCHANGED <<users, agents, sources, blocks, tools, jobs, tokens, mappings, files, matched, calls, scan>>

\* the tables of blocks: a block or none for each id
BlockTables ==
    {{}} \cup {{b} : b \in Block}
         \cup {{b1, b2} : b1 \in {b \in Block : b.id = 1}, b2 \in {b \in Block : b.id = 2}}

\* a store of blocks
InitGetBlocks ==
    /\ users = {}
    /\ agents = {}
    /\ sources = {}
    /\ blocks \in BlockTables
    /\ tools = {}
    /\ jobs = {}
    /\ tokens = {}
    /\ mappings = {}
    /\ files = {}
    /\ matched = 0
    /\ last = Call("init", [id |-> None], "ok", {})
    /\ calls = [p \in Procs |-> NoCall]
    /\ scan = NoScan

NextGetBlocks ==
    \E user_id \in {None} \cup UserIds, label \in Optional(Labels), template \in Optional(BOOLEAN),
       name \in Optional({1}), id \in Optional({1}) :
        get_blocks(user_id, label, template, name, id)

SpecGetBlocks == InitGetBlocks /\ [][NextGetBlocks]_vars

(***************************************************************************)
(* The legacy store's delete_user and get_user_from_api_key, over a store  *)
(* with users, their agents, sources, mappings and tokens.                 *)
(***************************************************************************)
\* delete_user with its first delete statement alone
delete_user_UserOnly(user_id) ==
    /\ users' = DeleteRows(users, user_id)
    /\ matched' = 0
    /\ last' = Call("delete_user", [id |-> user_id], "ok", {})
    /\ UNCHANGED <<agents, sources, mappings, blocks, tools, jobs, tokens, files, calls, scan>>

\* the four delete statements of delete_user and the commit
delete_user(user_id) ==
    /\ users' = DeleteRows(users, user_id)
    /\ agents' = {r \in agents : r.user_id # user_id}
    /\ sources' = {r \in sources : r.user_id # user_id}
    /\ mappings' = {r \in mappings : r.user_id # user_id}
    /\ matched' = Cardinality({r \in mappings : r.user_id = user_id})
    /\ last' = Call("delete_user", [id |-> user_id], "ok", {})
    /\ UNCHANGED <<blocks, tools, jobs, tokens, files, calls, scan>>

\* get_user(user_id)
get_user_return(user_id) == ExactlyOneOrNone(ById(users, user_id))

\* get_api_key, the raise when it returns None, else get_user of the token's
\* user id
get_user_from_api_key_return(api_key) ==
    LET token == get_api_key_return(tokens, api_key)
    IN IF token.res # "ok" THEN token
       ELSE IF token.ret = {} THEN [res |-> "ValueError", ret |-> {}]
       ELSE get_user_return((CHOOSE t \in token.ret : TRUE).user_id)

get_user_from_api_key(api_key) ==
    /\ last' = LET r == get_user_from_api_key_return(api_key)
               IN Call("get_user_from_api_key", [api_key |-> api_key], r.res, r.ret)
    /\ UNCHANGED <<users, agents, sources, blocks, tools, jobs, tokens, mappings, files, matched, calls, scan>>

\* the rows a user of the legacy store can own
RowsOfUsers(rows) == {t \in Tables(rows) : \A r \in t : ById(users, r.user_id) # {}}

\* a store whose agents, sources, mappings and tokens are those of its users
InitDeleteUser ==
    /\ users \in SUBSET [id : UserIds]
    /\ agents \in RowsOfUsers({[id |-> u, user_id |-> u, name |-> 1] : u \in UserIds})
    /\ sources \in RowsOfUsers({[id |-> u, user_id |-> u, name |-> 1] : u \in UserIds})
    /\ mappings \in RowsOfUsers({[id |-> uuid4(u), user_id |-> u, agent_id |-> u, source_id |-> u] :
                                    u \in UserIds})
    /\ tokens \in RowsOfUsers({[id |-> k, user_id |-> u, key |-> k, name |-> 1] :
                                  k \in Keys, u \in UserIds})
    /\ blocks = {}
    /\ tools = {}
    /\ jobs = {}
    /\ files = {}
    /\ matched = 0
    /\ last = Call("init", [id |-> None], "ok", {})
    /\ calls = [p \in Procs |-> NoCall]
    /\ scan = NoScan

NextDeleteUser ==
    \/ \E user_id \in UserIds : delete_user(user_id)
    \/ \E api_key \in Keys : get_user_from_api_key(api_key)

SpecDeleteUser == InitDeleteUser /\ [][NextDeleteUser]_vars

(***************************************************************************)
(* The store under a single writer.  The methods of one table read and     *)
(* write no other table, so a run is taken to work on one table at a time: *)
(* a table's methods run while the other tables are empty.                 *)
(***************************************************************************)
OnlyTable(table) ==
    \A t \in {agents, sources, blocks, tools, jobs, tokens} : t = {} \/ t = table

Next ==
    \/ OnlyTable(agents) /\ NextAgent
    \/ OnlyTable(sources) /\ NextSource
    \/ OnlyTable(blocks) /\ NextBlock
    \/ OnlyTable(tools) /\ NextTool
    \/ OnlyTable(jobs) /\ NextJob
    \/ OnlyTable(tokens) /\ NextAPIKey

(***************************************************************************)
(* C1: create_agent fails with AlreadyExists when a row with the same      *)
(* (user id, name) exists; when every row carrying that name belongs to    *)
(* another user (and the new id is not in use, the ids being unique by     *)
(* the primary key) it succeeds and the row is in the table.               *)
(***************************************************************************)
C1_CreateAgentNameCheck ==
    [][last'.op = "create_agent" =>
        LET a == last'.arg IN
        /\ (\E r \in agents : r.user_id = a.user_id /\ r.name = a.name)
              => (last'.res = "AlreadyExists" /\ agents' = agents)
        /\ ((\A r \in agents : r.name = a.name => r.user_id # a.user_id)
               /\ (\A r \in agents : r.id # a.id))
              => (last'.res = "ok" /\ agents' = agents \cup {a})]_vars

\* a create_agent that succeeded although another user's agent has the name
C1_Witness ==
    /\ last.op = "create_agent"
    /\ last.res = "ok"
    /\ last.arg \in agents
    /\ \E r \in agents : r.name = last.arg.name /\ r.user_id # last.arg.user_id

(***************************************************************************)
(* C2: no two Agent rows have the same (user id, name), in every state     *)
(* reachable by create_agent, update_agent and delete_agent.               *)
(***************************************************************************)
C2_AgentNamesUnique ==
    \A r1, r2 \in agents :
        (r1.user_id = r2.user_id /\ r1.name = r2.name) => r1 = r2

\* the create that last' records meets a row that its uniqueness invariant forbids
C3_Violates ==
    \/ /\ last'.op = "create_agent"
       /\ \E r \in agents : r.user_id = last'.arg.user_id /\ r.name = last'.arg.name
    \/ /\ last'.op = "create_source"
       /\ \E r \in sources : r.user_id = last'.arg.user_id /\ r.name = last'.arg.name
    \/ /\ last'.op = "create_block"
       /\ last'.arg.template
       /\ \E r \in blocks : /\ r.template
                            /\ r.user_id = last'.arg.user_id
                            /\ r.label = last'.arg.label
                            /\ r.name = last'.arg.name

(***************************************************************************)
(* C3: a create_agent, create_source or create_block that violates its     *)
(* uniqueness invariant raises AlreadyExists, and a create that raises     *)
(* AlreadyExists leaves every table as it was.                             *)
(***************************************************************************)
C3_FailedCreateWritesNothing ==
    [][/\ C3_Violates => last'.res = "AlreadyExists"
       /\ (last'.op \in {"create_agent", "create_source", "create_block"}
             /\ last'.res = "AlreadyExists")
            => UNCHANGED <<users, agents, sources, blocks, tools, jobs, tokens, mappings, files, matched, scan>>]_vars

\* a create_source refused for its name, the table holding the row it clashed with
C3_Witness ==
    /\ last.op = "create_source"
    /\ last.res = "AlreadyExists"
    /\ last.arg \notin sources
    /\ \E r \in sources : r.user_id = last.arg.user_id /\ r.name = last.arg.name

(***************************************************************************)
(* C4: at most one global Tool row per name and at most one Tool row per   *)
(* (user id, name), in every state reachable by create_tool, update_tool   *)
(* and delete_tool.                                                        *)
(***************************************************************************)
C4_ToolNamesUniquePerScope ==
    \A r1, r2 \in tools :
        (r1.user_id = r2.user_id /\ r1.name = r2.name) => r1 = r2

(***************************************************************************)
(* C5: a get_tool by name for user u, when a global tool and a tool of u   *)
(* both carry the name, raises instead of returning one of the two rows.   *)
(***************************************************************************)
C5_AmbiguousToolNameRaises ==
    (/\ last.op = "get_tool"
     /\ last.arg.tool_id = None
     /\ last.arg.user_id # None
     /\ \E r \in tools : r.name = last.arg.tool_name /\ r.user_id = None
     /\ \E r \in tools : r.name = last.arg.tool_name /\ r.user_id = last.arg.user_id)
        => (last.res = "AssertionError" /\ last.ret = {})

(***************************************************************************)
(* C6: no two Block rows with the template flag set share the same         *)
(* (user id, label, name), in every state reachable by create_block,       *)
(* update_block, update_or_create_block and delete_block.                  *)
(***************************************************************************)
C6_TemplateNamesUnique ==
    \A r1, r2 \in blocks :
        (/\ r1.template /\ r2.template
         /\ r1.user_id = r2.user_id /\ r1.label = r2.label /\ r1.name = r2.name)
            => r1 = r2

(***************************************************************************)
(* C7: create_block of a block whose template flag is not set is never     *)
(* refused for its name, whatever blocks of that (user id, label, name)    *)
(* exist.                                                                  *)
(***************************************************************************)
C7_NonTemplateNeverRefused ==
    (last.op = "create_block" /\ ~last.arg.template) => last.res # "AlreadyExists"

\* call q read the row that call p, which had found none, added
C8_Sequential(p, q) ==
    /\ p # q
    /\ calls[p].pc = "done" /\ calls[q].pc = "done"
    /\ calls[p].block.id = calls[q].block.id
    /\ calls[p].existing = {}
    /\ calls[q].existing = {calls[p].block}

(***************************************************************************)
(* C8: update_or_create_block on a Block id that does not exist, then      *)
(* called again with the same id, leaves exactly one Block row with that   *)
(* id, and the row carries the content of the second call.                 *)
(***************************************************************************)
C8_UpsertTwiceKeepsLatest ==
    \A p, q \in Procs :
        C8_Sequential(p, q) =>
            {r \in blocks : r.id = calls[q].block.id} = {calls[q].block}

\* the second call carried other content than the first
C8_Witness ==
    \E p, q \in Procs :
        /\ C8_Sequential(p, q)
        /\ calls[q].block # calls[p].block
        /\ calls[q].block \in blocks
        /\ calls[p].block \notin blocks

C10_Matching ==
    CASE last.op = "get_agent" ->
           IF last.arg.agent_id # None
           THEN {r \in agents : r.id = last.arg.agent_id}
           ELSE {r \in agents : r.name = last.arg.agent_name /\ r.user_id = last.arg.user_id}
      [] last.op = "get_source" ->
           IF last.arg.source_id # None
           THEN {r \in sources : r.id = last.arg.source_id}
           ELSE {r \in sources : r.name = last.arg.source_name /\ r.user_id = last.arg.user_id}
      [] last.op = "get_block" -> {r \in blocks : r.id = last.arg.id}
      [] last.op = "get_job" -> {r \in jobs : r.id = last.arg.id}
      [] last.op = "get_api_key" -> {r \in tokens : r.key = last.arg.key}

(***************************************************************************)
(* C10: a unique-key get (get_agent, get_source, get_block, get_job,       *)
(* get_api_key) returns None when no row matches the key, the record of    *)
(* the row when exactly one matches, and raises when more than one         *)
(* matches; it never returns one of several matching rows.                 *)
(***************************************************************************)
C10_UniqueKeyGet ==
    last.op \in {"get_agent", "get_source", "get_block", "get_job", "get_api_key"} =>
        /\ C10_Matching = {} => (last.res = "ok" /\ last.ret = {})
        /\ (\E r \in C10_Matching : C10_Matching = {r}) => (last.res = "ok" /\ last.ret = C10_Matching)
        /\ (\E r1, r2 \in C10_Matching : r1 # r2) => (last.res = "AssertionError" /\ last.ret = {})

\* a get_agent by (name, user id) that two rows match
C10_Witness ==
    /\ last.op = "get_agent"
    /\ last.arg.agent_id = None
    /\ last.res = "AssertionError"
    /\ \E r1, r2 \in agents :
          /\ r1 # r2
          /\ r1.name = last.arg.agent_name /\ r2.name = last.arg.agent_name
          /\ r1.user_id = last.arg.user_id /\ r2.user_id = last.arg.user_id

\* the update that last' records names an id that no row of its table has
C11_NoRowMatches ==
    \/ last'.op = "update_agent" /\ ById(agents, last'.arg.id) = {}
    \/ last'.op = "update_source" /\ ById(sources, last'.arg.id) = {}
    \/ last'.op = "update_block" /\ ById(blocks, last'.arg.id) = {}
    \/ last'.op = "update_tool" /\ ById(tools, last'.arg.tool_id) = {}
    \/ last'.op = "update_job" /\ ById(jobs, last'.arg.id) = {}

(***************************************************************************)
(* C11: an update (update_agent, update_source, update_block, update_tool, *)
(* update_job) whose id matches no row raises no error and leaves every    *)
(* table as it was: it inserts no row.                                     *)
(***************************************************************************)
C11_UpdateOfMissingIdIsNoOp ==
    [][C11_NoRowMatches
            => /\ last'.res = "ok"
               /\ UNCHANGED <<users, agents, sources, blocks, tools, jobs, tokens, mappings, files>>]_vars

\* an update of an id that the table, which has rows, does not hold
C11_Witness ==
    \/ /\ last.op = "update_agent" /\ last.res = "ok"
       /\ agents # {} /\ ById(agents, last.arg.id) = {} /\ last.arg \notin agents
    \/ /\ last.op = "update_job" /\ last.res = "ok"
       /\ jobs # {} /\ ById(jobs, last.arg.id) = {} /\ last.arg \notin jobs

(***************************************************************************)
(* C12: after delete_agent(a) there is no Agent row with id a and no       *)
(* mapping row with agent id a, and after delete_source(s) no Source row   *)
(* with id s and no mapping row with source id s.  The rows go in one      *)
(* commit: no step takes an agent or a source out of its table and leaves  *)
(* one of its mapping rows.                                                *)
(***************************************************************************)
C12_DeleteRemovesMappings ==
    [][/\ last'.op = "delete_agent"
            => /\ \A r \in agents' : r.id # last'.arg.id
               /\ \A m \in mappings' : m.agent_id # last'.arg.id
       /\ last'.op = "delete_source"
            => /\ \A r \in sources' : r.id # last'.arg.id
               /\ \A m \in mappings' : m.source_id # last'.arg.id
       /\ \A i \in AttachIds :
            /\ (ById(agents, i) # {} /\ ById(agents', i) = {})
                  => \A m \in mappings' : m.agent_id # i
            /\ (ById(sources, i) # {} /\ ById(sources', i) = {})
                  => \A m \in mappings' : m.source_id # i]_vars

\* a delete_agent that took mapping rows of its agent with it and left the
\* rows of another agent
C12_Witness ==
    /\ last.op = "delete_agent"
    /\ matched > 0
    /\ mappings # {}
    /\ agents # {}
    /\ \A m \in mappings : m.agent_id # last.arg.id

(***************************************************************************)
(* C13 (as the code has it): a delete_source(source) that finds mapping    *)
(* rows of the source, attached and not detached since, leaves none of     *)
(* them: no mapping row for (agent, source) remains.                       *)
(***************************************************************************)
C13_DeleteSourceRemovesAttachment ==
    (last.op = "delete_source" /\ matched > 0)
        => /\ \A m \in mappings : m.source_id # last.arg.id
           /\ \A r \in sources : r.id # last.arg.id

(***************************************************************************)
(* C13 (as claimed): after attach_source(u, agent, source) followed by     *)
(* delete_source(source), with no detach_source in between, the mapping    *)
(* row for (agent, source) is still present.                               *)
(***************************************************************************)
C13_MappingOutlivesSource ==
    (last.op = "delete_source" /\ matched > 0)
        => \E m \in mappings : m.source_id = last.arg.id

\* a delete_source of a source that was attached to an agent that exists
C13_Witness ==
    /\ last.op = "delete_source"
    /\ matched > 0
    /\ agents # {}
    /\ ById(sources, last.arg.id) = {}
    /\ MappingsOfSource(last.arg.id) = {}

\* the members of a list
C14_Range(list) == {list[i] : i \in 1..Len(list)}

(***************************************************************************)
(* C14: list_attached_sources(agent) returns exactly the Sources s that    *)
(* have a mapping row (agent, s) and a Source row, list_attached_agents    *)
(* (source) exactly the agent ids that have a mapping row to the source    *)
(* and an Agent row; a mapping row whose referent is missing is skipped    *)
(* and the call does not fail.                                             *)
(***************************************************************************)
C14_ListAttachedIsJoin ==
    /\ last.op = "list_attached_sources"
          => /\ last.res = "ok"
             /\ \E list \in last.ret :
                   C14_Range(list) =
                       {s \in sources : \E m \in mappings :
                            m.agent_id = last.arg.id /\ m.source_id = s.id}
    /\ last.op = "list_attached_agents"
          => /\ last.res = "ok"
             /\ \E list \in last.ret :
                   C14_Range(list) =
                       {i \in AttachIds :
                            /\ \E m \in mappings : m.source_id = last.arg.id /\ m.agent_id = i
                            /\ \E r \in agents : r.id = i}

\* a list_attached_agents that returned an agent and skipped a mapping row
\* whose agent is missing
C14_Witness ==
    /\ last.op = "list_attached_agents"
    /\ last.res = "ok"
    /\ \E list \in last.ret : list # <<>>
    /\ \E m \in mappings :
          m.source_id = last.arg.id /\ ById(agents, m.agent_id) = {}

\* the mapping rows of a (user id, agent id, source id)
C15_Rows(table, arg) ==
    {m \in table : /\ m.user_id = arg.user_id
                   /\ m.agent_id = arg.agent_id
                   /\ m.source_id = arg.source_id}

(***************************************************************************)
(* C15: with the mapping id derived from (user id, agent id, source id),   *)
(* an attach_source of a triple that has a row fails (the duplicate id is  *)
(* rejected) and the table keeps its one row of the triple; with a fresh   *)
(* id per row (the legacy store) the attach succeeds and adds a second row *)
(* of the triple.                                                          *)
(***************************************************************************)
C15_DuplicateAttach ==
    [][/\ (last'.op = "attach_source" /\ C15_Rows(mappings, last'.arg) # {})
            => /\ last'.res = "IntegrityError"
               /\ mappings' = mappings
               /\ Cardinality(C15_Rows(mappings', last'.arg)) = 1
       /\ (last'.op = "memgpt_attach_source" /\ C15_Rows(mappings, last'.arg) # {})
            => /\ last'.res = "ok"
               /\ Cardinality(C15_Rows(mappings', last'.arg))
                      = Cardinality(C15_Rows(mappings, last'.arg)) + 1]_vars

\* a second attach of the legacy store that left two rows of its triple
C15_Witness ==
    /\ last.op = "memgpt_attach_source"
    /\ last.res = "ok"
    /\ Cardinality(C15_Rows(mappings, last.arg)) = 2

(***************************************************************************)
(* C16: detach_source(agent, source) removes every mapping row with that   *)
(* agent id and source id, whatever its user id, and leaves the other      *)
(* mapping rows and every Agent and Source row as they were.               *)
(***************************************************************************)
C16_DetachRemovesAllOfPair ==
    [][last'.op = "detach_source"
            => /\ mappings' = {m \in mappings :
                                  ~(/\ m.agent_id = last'.arg.agent_id
                                    /\ m.source_id = last'.arg.source_id)}
               /\ UNCHANGED <<users, agents, sources>>]_vars

\* a detach_source that removed the rows of two users and left another row
C16_Witness ==
    /\ last.op = "detach_source"
    /\ matched = 2
    /\ mappings # {}
    /\ agents # {} /\ sources # {}
    /\ \A m \in mappings :
          ~(m.agent_id = last.arg.agent_id /\ m.source_id = last.arg.source_id)

\* the ids of the pages read so far, one page after the other
RECURSIVE C17_Concat(_)
C17_Concat(pages) ==
    IF pages = <<>> THEN <<>> ELSE Head(pages).ids \o C17_Concat(Tail(pages))

\* the ids the listing under way is to return
C17_InScope ==
    IF scan.kind = "tools"
    THEN {r.id : r \in ToolsInScope(scan.scope)}
    ELSE {r.id : r \in FilesOfSource(scan.scope)}

\* the ids in scope of the list call that last records
C17_InScopeOfLast ==
    IF last.op = "list_tools"
    THEN {r.id : r \in ToolsInScope(last.arg.user_id)}
    ELSE {r.id : r \in FilesOfSource(last.arg.source_id)}

(***************************************************************************)
(* C17: listing a store that does not change with list_tools or            *)
(* list_files_from_source, from no cursor and with each page's last id as  *)
(* the next cursor, limit k: every page is in ascending id order, holds at *)
(* most k ids, all greater than its cursor; the pages together are the ids *)
(* in scope in ascending order, none twice and none skipped; and a call    *)
(* whose cursor is at or past the largest id in scope returns an empty     *)
(* page.                                                                   *)
(***************************************************************************)
C17_KeysetPagination ==
    /\ scan.kind # "none" =>
          LET read == C17_Concat(scan.pages) IN
          /\ \A i \in 1..Len(scan.pages) :
                LET p == scan.pages[i] IN
                /\ Len(p.ids) <= scan.limit
                /\ \A j \in 1..Len(p.ids) : p.cursor # None => p.ids[j] > p.cursor
                /\ \A j, k \in 1..Len(p.ids) : j < k => p.ids[j] < p.ids[k]
          /\ \A j, k \in 1..Len(read) : j < k => read[j] < read[k]
          /\ \A j \in 1..Len(read) : read[j] \in C17_InScope
          /\ \A x \in C17_InScope :
                (\E j \in 1..Len(read) : x <= read[j]) => (\E j \in 1..Len(read) : x = read[j])
          /\ scan.done => \A x \in C17_InScope : \E j \in 1..Len(read) : x = read[j]
    /\ (/\ last.op \in {"list_tools", "list_files_from_source"}
        /\ last.arg.cursor # None
        /\ \A x \in C17_InScopeOfLast : x <= last.arg.cursor)
          => last.ret = {<<>>}

\* a listing of tools that ended after three pages or more, in a store that
\* has a tool out of scope
C17_Witness ==
    /\ scan.kind = "tools"
    /\ scan.done
    /\ Len(scan.pages) >= 3
    /\ scan.pages[Len(scan.pages)].ids = <<>>
    /\ \E r \in tools : r \notin ToolsInScope(scan.scope)

(***************************************************************************)
(* C18: list_tools(user_id = u) returns only rows of the tools table whose *)
(* user id is empty or is u, for every cursor and limit: never a tool of   *)
(* another user, and only global tools when u is empty.                    *)
(***************************************************************************)
C18_ListToolsScope ==
    last.op = "list_tools" =>
        \A page \in last.ret : \A i \in 1..Len(page) :
            /\ page[i] \in tools
            /\ page[i].user_id = None \/ page[i].user_id = last.arg.user_id
            /\ last.arg.user_id = None => page[i].user_id = None

\* a list_tools for a user, with a cursor, that returned a tool of the user
\* and, with room left in the page, left out a later tool of another user
C18_Witness ==
    /\ last.op = "list_tools"
    /\ last.arg.user_id # None
    /\ last.arg.cursor # None
    /\ \E page \in last.ret :
          /\ Len(page) < last.arg.limit
          /\ \E i \in 1..Len(page) : page[i].user_id = last.arg.user_id
    /\ \E r \in tools : /\ r.id > last.arg.cursor
                        /\ r.user_id # None
                        /\ r.user_id # last.arg.user_id

(***************************************************************************)
(* C19: in every state reached by create_api_key and delete_api_key, no    *)
(* two rows of the tokens table hold the same token.                       *)
(***************************************************************************)
C19_TokensUnique ==
    \A r1, r2 \in tokens : r1.key = r2.key => r1 = r2

\* a create_api_key that added a second credential to the table
C19_Witness ==
    /\ last.op = "create_api_key"
    /\ last.res = "ok"
    /\ \E r1, r2 \in tokens : r1 # r2 /\ r1.key = last.arg.key /\ r1.user_id = r2.user_id

(***************************************************************************)
(* C20: a create_api_key whose generated token is the token of a row fails *)
(* with AlreadyExists: it adds no row and changes none, it stores no other *)
(* token in place of the one it drew, and it returns no record.            *)
(***************************************************************************)
C20_CollisionFails ==
    [][(last'.op = "create_api_key" /\ ByKey(tokens, last'.arg.key) # {})
            => /\ last'.res = "AlreadyExists"
               /\ last'.ret = {}
               /\ tokens' = tokens]_vars

\* a create_api_key refused for its token, the row that holds the token being
\* another user's
C20_Witness ==
    /\ last.op = "create_api_key"
    /\ last.res = "AlreadyExists"
    /\ last.ret = {}
    /\ \E r \in tokens : r.key = last.arg.key /\ r.user_id # last.arg.user_id

(***************************************************************************)
(* C21: a create_api_key call that does not fail returns the stored record *)
(* (never None), with the user id and the name it was given, under every   *)
(* interleaving with the delete_api_key and create_api_key calls of other  *)
(* callers.                                                                *)
(***************************************************************************)
C21_CreateReturnsOwnRecord ==
    \A p \in Procs :
        (calls[p].pc = "done" /\ calls[p].res = "ok")
            => \E r \in calls[p].ret : /\ r.user_id = calls[p].user_id
                                       /\ r.name = calls[p].name
                                       /\ r.key = calls[p].key

(***************************************************************************)
(* C22: generate_api_key(prefix, length) returns a token that starts with  *)
(* the prefix and has length characters in all, for every prefix and every *)
(* length greater than the length of the prefix.                           *)
(***************************************************************************)
C22_TokenHasLength ==
    (last.op = "generate_api_key" /\ last.arg.length > Len(last.arg.prefix))
        => \A new_key \in last.ret :
              /\ Len(new_key) = last.arg.length
              /\ SubSeq(new_key, 1, Len(last.arg.prefix)) = last.arg.prefix

(***************************************************************************)
(* C23: update_job_status(id, completed) on a job that exists leaves the   *)
(* job with status completed and a completion time, both written in the    *)
(* one commit: no state that update_job_status produces has the job        *)
(* completed with no completion time.                                      *)
(***************************************************************************)
C23_CompletedHasTime ==
    last.op = "update_job_status" =>
        \A r \in jobs : r.id = last.arg.id =>
            /\ r.status = last.arg.status
            /\ r.status = "completed" => r.completed_at # None

\* an update_job_status to completed of a job that exists
C23_Witness ==
    /\ last.op = "update_job_status"
    /\ last.arg.status = "completed"
    /\ \E r \in jobs : r.id = last.arg.id /\ r.status = "completed" /\ r.completed_at = Now

(***************************************************************************)
(* C24: update_job_status(id, s) with s pending, running or failed, on a   *)
(* job that has no completion time, leaves it without one; a job's         *)
(* completion time becomes non-empty only in a transition to completed.    *)
(***************************************************************************)
C24_TimeOnlyOnCompletion ==
    [][last'.op = "update_job_status" =>
          \A r \in jobs : \A q \in jobs' :
              (r.id = last'.arg.id /\ q.id = r.id /\ r.completed_at = None)
                  => /\ last'.arg.status # "completed" => q.completed_at = None
                     /\ q.completed_at # None => q.status = "completed"]_vars

\* pending, then running, then the terminal statuses
C25_Rank(status) ==
    IF status = "pending" THEN 0 ELSE IF status = "running" THEN 1 ELSE 2

(***************************************************************************)
(* C25: over update_job_status and update_job calls a job's status never   *)
(* moves back: not from completed or failed to pending or running, and not *)
(* from running to pending.                                                *)
(***************************************************************************)
C25_StatusNeverMovesBack ==
    [][last'.op \in {"update_job_status", "update_job"} =>
          \A r \in jobs : \A q \in jobs' :
              q.id = r.id => C25_Rank(q.status) >= C25_Rank(r.status)]_vars

C27_ToolCallCodec ==
    /\ last.op = "store_tool_calls"
          => last.res = "ok" /\ \A r \in last.ret : r.loaded = last.arg.value
    /\ (last.op = "load_tool_calls" /\ last.arg.value # PyNone)
          => /\ last.res = "ok"
             /\ \A loaded \in last.ret :
                   \A i \in 1..Len(last.arg.value.items) :
                       LET tool_value == last.arg.value.items[i] IN
                       \/ /\ "function" \in DOMAIN tool_value
                          /\ Truthy(tool_value.function)
                       \/ loaded.items[i].function = PyNone

(***************************************************************************)
(* C28: every operation runs in exactly one session: it never has two      *)
(* sessions open at once (no nesting), never opens a second session after  *)
(* its first, and has opened one when it returns; create_tool,             *)
(* list_attached_sources, list_attached_agents and create_api_key          *)
(* included.                                                               *)
(***************************************************************************)
C28_OneSession ==
    \A p \in Procs :
        calls[p].op \in SessionOps =>
            /\ calls[p].open <= 1
            /\ calls[p].opened <= 1
            /\ calls[p].pc = Len(Sessions(calls[p].op, calls[p].rows)) => calls[p].opened = 1

(***************************************************************************)
(* C29: of two concurrent create_agent calls with the same user id and     *)
(* name and different ids, at most one commits a row; the other fails with *)
(* AlreadyExists.                                                          *)
(***************************************************************************)
C29_OneAgentPerName ==
    \A p, q \in Procs :
        (/\ p # q
         /\ calls[p].agent.user_id = calls[q].agent.user_id
         /\ calls[p].agent.name = calls[q].agent.name
         /\ calls[p].agent.id # calls[q].agent.id
         /\ calls[p].res = "ok"
         /\ calls[q].pc = "done")
            => calls[q].res = "AlreadyExists"

(***************************************************************************)
(* C30: delete_source(s) leaves every file row as it is, those with source *)
(* id s as well; file rows go only by delete_file_from_source, which       *)
(* removes at most the one row that matches the source id, the file id and *)
(* the user id together, and changes nothing when no row matches all       *)
(* three.                                                                  *)
(***************************************************************************)
C30_FilesGoOnlyByDeleteFile ==
    [][/\ last'.op = "delete_source" => files' = files
       /\ files' # files =>
             /\ last'.op = "delete_file_from_source"
             /\ \E r \in files :
                   /\ r.source_id = last'.arg.source_id
                   /\ r.id = last'.arg.file_id
                   /\ r.user_id = last'.arg.user_id
                   /\ files' = files \ {r}
       /\ (/\ last'.op = "delete_file_from_source"
           /\ ~\E r \in files :
                   /\ r.source_id = last'.arg.source_id
                   /\ r.id = last'.arg.file_id
                   /\ r.user_id = last'.arg.user_id)
             => files' = files]_vars

\* a source was deleted and a file row with its id is still there
C30_Witness ==
    /\ last.op = "delete_source"
    /\ ById(sources, last.arg.id) = {}
    /\ \E r \in files : r.source_id = last.arg.id

(***************************************************************************)
(* C31: attach_source validates that the source exists: with a source id   *)
(* that matches no row of the sources table it inserts no mapping row.     *)
(***************************************************************************)
C31_AttachNeedsSource ==
    [][(/\ last'.op \in {"attach_source", "memgpt_attach_source"}
        /\ ById(sources, last'.arg.source_id) = {})
           => mappings' = mappings]_vars

(***************************************************************************)
(* C32: attach_source never rejects a mapping that is not yet there: two   *)
(* different triples of user id, agent id and source id have different     *)
(* mapping ids, ids with the separator inside included, so attaching a     *)
(* triple no row holds succeeds.                                           *)
(***************************************************************************)
C32_NewTripleAttaches ==
    [][(/\ last'.op = "attach_source"
        /\ ~\E m \in mappings : /\ m.user_id = last'.arg.user_id
                                /\ m.agent_id = last'.arg.agent_id
                                /\ m.source_id = last'.arg.source_id)
           => last'.res = "ok"]_vars

(***************************************************************************)
(* C33: listing the tools page by page from no cursor, each page's last id *)
(* the next cursor, while tools are created and deleted between the calls: *)
(* the ids of the pages, one page after the other, are strictly            *)
(* increasing, so no id is on two pages; and when the listing has ended,   *)
(* every id that was in scope at each of its calls has been returned.      *)
(***************************************************************************)
C33_PagingUnderChange ==
    scan.kind = "tools" =>
        LET read == C17_Concat(scan.pages) IN
        /\ \A j, k \in 1..Len(read) : j < k => read[j] < read[k]
        /\ scan.done => \A x \in scan.kept : \E j \in 1..Len(read) : x = read[j]

\* a listing that ended over a store that changed under it: an id it
\* returned is gone, a tool in scope was created behind its cursor, and an
\* id was in scope all along
C33_Witness ==
    /\ scan.kind = "tools"
    /\ scan.done
    /\ scan.kept # {}
    /\ \E j \in 1..Len(C17_Concat(scan.pages)) : ById(tools, C17_Concat(scan.pages)[j]) = {}
    /\ \E r \in ToolsInScope(scan.scope) :
          \A j \in 1..Len(C17_Concat(scan.pages)) : C17_Concat(scan.pages)[j] # r.id

(***************************************************************************)
(* C34: listing an unchanging table of users with get_all_users, from no   *)
(* cursor, each call's next cursor passed to the next call, limit k >= 1:  *)
(* the next cursor of a call is the id of the last record it returns, the  *)
(* ids of the pages taken together are in descending order, each page has  *)
(* at most k of them, the listing takes no more calls than there are users *)
(* and one, and it ends with (None, []) when every user has been returned  *)
(* once.                                                                   *)
(***************************************************************************)
C34_UsersPaging ==
    /\ last.op = "get_all_users" =>
          \A r \in last.ret :
              IF r.users = <<>> THEN r.next_cursor = None
              ELSE r.next_cursor = r.users[Len(r.users)].id
    /\ scan.kind = "users" =>
          LET read == C17_Concat(scan.pages) IN
          /\ \A i \in 1..Len(scan.pages) :
                /\ Len(scan.pages[i].ids) <= scan.limit
                /\ i < Len(scan.pages) => scan.pages[i].ids # <<>>
          /\ \A j, k \in 1..Len(read) : j < k => read[j] > read[k]
          /\ \A j \in 1..Len(read) : \E u \in users : u.id = read[j]
          /\ Len(scan.pages) <= Cardinality(users) + 1
          /\ scan.done =>
                /\ scan.cursor = None
                /\ scan.pages[Len(scan.pages)].ids = <<>>
                /\ \A u \in users : \E j \in 1..Len(read) : u.id = read[j]

\* a listing of three users or more that ended after three pages or more
C34_Witness ==
    /\ scan.kind = "users"
    /\ scan.done
    /\ Len(scan.pages) >= 3
    /\ Cardinality(users) >= 3
    /\ last.ret = {[next_cursor |-> None, users |-> <<>>]}

\* an update of the row with an id: as many rows after as before, the rows
\* with another id as they were, and a row with the id still there
C35_OneRow(before, after, id) ==
    /\ Cardinality(after) = Cardinality(before)
    /\ \A r \in before : r.id # id => r \in after
    /\ ById(before, id) # {} => ById(after, id) # {}

(***************************************************************************)
(* C35: an update changes at most the one row whose id matches: after      *)
(* update_agent, update_source, update_block or update_tool(tool_id, tool) *)
(* the table has as many rows as before, every row with another id is as   *)
(* it was, and the row updated still has the id it was looked up by.       *)
(***************************************************************************)
C35_UpdateChangesOneRow ==
    [][/\ last'.op = "update_agent" => C35_OneRow(agents, agents', last'.arg.id)
       /\ last'.op = "update_source" => C35_OneRow(sources, sources', last'.arg.id)
       /\ last'.op = "update_block" => C35_OneRow(blocks, blocks', last'.arg.id)
       /\ last'.op = "update_tool" => C35_OneRow(tools, tools', last'.arg.tool_id)]_vars

(***************************************************************************)
(* C36: get_blocks filters by every criterion it is given: with template   *)
(* false it returns only blocks whose template flag is not set, with       *)
(* template true only blocks whose flag is set, and when no block matches  *)
(* it returns None, not an empty list.                                     *)
(***************************************************************************)
C36_GetBlocksFilters ==
    last.op = "get_blocks" =>
        \A records \in last.ret :
            /\ records # <<>>
            /\ \A i \in 1..Len(records) :
                  /\ records[i] \in blocks
                  /\ last.arg.template # {} => records[i].template \in last.arg.template

(***************************************************************************)
(* C37: in the legacy store, after delete_user(u) no user with id u and no *)
(* agent, source or mapping with user id u is left, and the tokens are as  *)
(* they were; get_user_from_api_key with a stored token whose user is gone *)
(* returns None and raises nothing, and with a token that is not stored it *)
(* raises an error.                                                        *)
(***************************************************************************)
C37_DeleteUserKeepsTokens ==
    [][/\ last'.op = "delete_user" =>
             /\ ById(users', last'.arg.id) = {}
             /\ \A r \in agents' \cup sources' \cup mappings' : r.user_id # last'.arg.id
             /\ tokens' = tokens
       /\ last'.op = "get_user_from_api_key" =>
             /\ ByKey(tokens, last'.arg.api_key) = {} => last'.res = "ValueError"
             /\ \A t \in ByKey(tokens, last'.arg.api_key) :
                    ById(users, t.user_id) = {} => last'.res = "ok" /\ last'.ret = {}]_vars

\* a token of a user that was deleted, asked for its user: the users of the
\* tokens are there at first
C37_Witness ==
    /\ last.op = "get_user_from_api_key"
    /\ last.res = "ok"
    /\ last.ret = {}
    /\ \E t \in ByKey(tokens, last.arg.api_key) : ById(users, t.user_id) = {}

(***************************************************************************)
(* C38: generate_api_key always draws at least one random byte: for every  *)
(* prefix and every length, those at most one above the length of the      *)
(* prefix included, the token is strictly longer than the prefix.          *)
(***************************************************************************)
C38_AtLeastOneByte ==
    last.op = "generate_api_key" =>
        \A new_key \in last.ret : Len(new_key) > Len(last.arg.prefix)

Spec == Init /\ [][Next]_vars
=============================================================================
